---------------------------- MODULE Spec2Model ----------------------------
(***************************************************************************)
(* A model of keras/layers/attention.py: the life cycle of the             *)
(* MultiHeadAttention layer (__init__, build, call, compute_output_shape,  *)
(* get_config) and the step functions and configurations of the older      *)
(* attention layers of the same file.                                      *)
(*                                                                         *)
(* Tensors are sequences (1-based): a tensor of shape (N, T, D) is a       *)
(* sequence of N sequences of T sequences of D numbers.  Arithmetic is     *)
(* exact: projections are integers, attention weights and what is computed *)
(* from them are fractions <<numerator, denominator>> in lowest terms.     *)
(* Floating-point rounding is not modelled.                                *)
(***************************************************************************)
EXTENDS Integers, Sequences, FiniteSets, TLC

\* ------------------------------------------------------------------ bounds
\* Number of samples of a batch.
NbSamples == 2
\* Time steps of the queries and of the keys of a call.
QuerySteps == 2
KeySteps == 3
\* Size of the last axis of the queries and of the keys.
QueryDim == 2
KeyDim == 3
\* Largest n_heads and dmodel passed to the constructor.
MaxHeads == 2
MaxDmodel == 2
\* The input tensors of a call are numbered 0..MaxQSeed and 0..MaxKSeed.
MaxQSeed == 2
MaxKSeed == 5
\* The dropout masks of a call in the training phase are numbered 1..MaxDropSeed.
MaxDropSeed == 1

\* ---------------------------------------------------------------- helpers
None == "None"

Abs(x) == IF x < 0 THEN -x ELSE x

Sign(x) == IF x > 0 THEN 1 ELSE IF x < 0 THEN -1 ELSE 0

RECURSIVE SumSeq(_)
SumSeq(s) == IF s = <<>> THEN 0 ELSE Head(s) + SumSeq(Tail(s))

RECURSIVE Gcd(_, _)
Gcd(a, b) == IF b = 0 THEN a ELSE Gcd(b, a % b)

\* A fraction n/d (d > 0) in lowest terms.
Frac(n, d) ==
    LET g == Gcd(Abs(n), d)
    IN  IF n = 0 THEN <<0, 1>> ELSE <<n \div g, d \div g>>

FAdd(x, y) == Frac(x[1] * y[2] + y[1] * x[2], x[2] * y[2])

FMulInt(x, k) == Frac(x[1] * k, x[2])

RECURSIVE FSum(_)
FSum(s) == IF s = <<>> THEN <<0, 1>> ELSE FAdd(Head(s), FSum(Tail(s)))

RECURSIVE Pow2(_)
Pow2(n) == IF n = 0 THEN 1 ELSE 2 * Pow2(n - 1)

RECURSIVE Concat(_)
\* K.concatenate of a list of sequences along their first axis.
Concat(parts) == IF parts = <<>> THEN <<>> ELSE Head(parts) \o Concat(Tail(parts))

MinOf(S) == CHOOSE x \in S : \A y \in S : x <= y

\* Shape of a tensor with three axes.
Shape3(x) == <<Len(x), Len(x[1]), Len(x[1][1])>>


\* ---------------------------------------------- keras identifiers and objects
\* activations.get: None gives the linear function, a name gives the function
\* of that name.  A function is written "fn:<name>".
activations_get(identifier) ==
    CASE identifier = None     -> "fn:linear"
      [] identifier = "linear" -> "fn:linear"
      [] identifier = "relu"   -> "fn:relu"
      [] identifier = "tanh"   -> "fn:tanh"

\* activations.serialize: the function's __name__.
activations_serialize(fn) ==
    CASE fn = "fn:linear" -> "linear"
      [] fn = "fn:relu"   -> "relu"
      [] fn = "fn:tanh"   -> "tanh"

\* initializers.get, regularizers.get, constraints.get: None stays None, a name
\* or a serialised configuration gives an instance, written "obj:<Class>".
keras_get(identifier) ==
    CASE identifier = None                   -> None
      [] identifier = "glorot_uniform"       -> "obj:VarianceScaling"
      [] identifier = "cfg:VarianceScaling"  -> "obj:VarianceScaling"
      [] identifier = "zeros"                -> "obj:Zeros"
      [] identifier = "cfg:Zeros"            -> "obj:Zeros"
      [] identifier = "ones"                 -> "obj:Ones"
      [] identifier = "cfg:Ones"             -> "obj:Ones"
      [] identifier = "l2"                   -> "obj:L1L2"
      [] identifier = "cfg:L1L2"             -> "obj:L1L2"
      [] identifier = "non_neg"              -> "obj:NonNeg"
      [] identifier = "cfg:NonNeg"           -> "obj:NonNeg"

\* initializers.serialize, regularizers.serialize, constraints.serialize: the
\* instance's {class_name, config} dictionary, written "cfg:<Class>".
keras_serialize(obj) ==
    CASE obj = None                  -> None
      [] obj = "obj:VarianceScaling" -> "cfg:VarianceScaling"
      [] obj = "obj:Zeros"           -> "cfg:Zeros"
      [] obj = "obj:Ones"            -> "cfg:Ones"
      [] obj = "obj:L1L2"            -> "cfg:L1L2"
      [] obj = "obj:NonNeg"          -> "cfg:NonNeg"

\* --------------------------------------------- MultiHeadAttention.__init__
\* The defaults of the constructor's keyword parameters, and of the two
\* keyword arguments that **kwargs hands to the base class: the name (the one
\* the base class generates when none is given) and trainable.
MHADefaults ==
    [mask_future |-> FALSE, dropout |-> 0, activation |-> "relu",
     use_bias |-> FALSE, kernel_initializer |-> "glorot_uniform",
     kernel_regularizer |-> None, activity_regularizer |-> None,
     kernel_constraint |-> None, bias_initializer |-> "zeros",
     bias_regularizer |-> None, bias_constraint |-> None,
     name |-> "multi_head_attention_1", trainable |-> TRUE]

\* Mutant of MHAInitAsserts: the operands of % exchanged.
MHAInitAssertsSwapped(a) == a.n_heads % a.dmodel = 0

\* The assertion of the constructor.
MHAInitAsserts(a) == a.dmodel % a.n_heads = 0

\* The object the constructor leaves when its assertion holds.  dropout is a
\* percentage; a weight that does not exist (None) is written <<>>.
MHA_init(a) ==
    [name |-> a.name,
     trainable |-> a.trainable,
     n_heads |-> a.n_heads,
     dmodel |-> a.dmodel,
     dk |-> a.dmodel \div a.n_heads,
     dv |-> a.dmodel \div a.n_heads,
     dropout |-> a.dropout,
     activation |-> activations_get(a.activation),
     use_bias |-> a.use_bias,
     kernel_initializer |-> keras_get(a.kernel_initializer),
     kernel_regularizer |-> keras_get(a.kernel_regularizer),
     kernel_constraint |-> keras_get(a.kernel_constraint),
     activity_regularizer |-> keras_get(a.activity_regularizer),
     bias_initializer |-> keras_get(a.bias_initializer),
     bias_regularizer |-> keras_get(a.bias_regularizer),
     bias_constraint |-> keras_get(a.bias_constraint),
     linear_q |-> <<>>, linear_k |-> <<>>, linear_v |-> <<>>, linear_o |-> <<>>,
     bias_q |-> <<>>, bias_k |-> <<>>, bias_v |-> <<>>, bias_o |-> <<>>,
     has_weights |-> FALSE, has_bias |-> FALSE, has_dropout_layer |-> FALSE,
     mask_future |-> a.mask_future,
     built |-> FALSE]


\* ------------------------------------------------ MultiHeadAttention.build
\* Mutant of MHABuildAsserts: at least two input shapes.
MHABuildAssertsAtLeast(input_shape) == Len(input_shape) >= 2

\* The assertion of build.
MHABuildAsserts(input_shape) == Len(input_shape) = 2

\* The values of a (rows, cols) kernel after training: column m copies input
\* feature ((m - 1 + shift) mod rows) + 1.
Kernel(rows, cols, shift) ==
    [j \in 1..rows |-> [m \in 1..cols |->
        IF ((m - 1 + shift) % rows) + 1 = j THEN 1 ELSE 0]]

\* The values of a (cols,) bias after training.
Bias(cols, shift) == [m \in 1..cols |-> (m + shift) % 2]

\* The object build leaves when its assertion holds.
MHA_build(self, input_shape) ==
    LET query_dim == input_shape[1][3]
        key_dim == input_shape[2][3]
    IN  [self EXCEPT
           !.linear_q = Kernel(query_dim, self.dk * self.n_heads, 0),
           !.linear_k = Kernel(key_dim, self.dk * self.n_heads, 0),
           !.linear_v = Kernel(key_dim, self.dv * self.n_heads, 1),
           !.linear_o = Kernel(self.dv * self.n_heads, self.dmodel, 1),
           !.has_weights = TRUE,
           !.bias_q = IF self.use_bias THEN Bias(self.dk * self.n_heads, 0) ELSE <<>>,
           !.bias_k = IF self.use_bias THEN Bias(self.dk * self.n_heads, 1) ELSE <<>>,
           !.bias_v = IF self.use_bias THEN Bias(self.dv * self.n_heads, 0) ELSE <<>>,
           !.bias_o = IF self.use_bias THEN Bias(self.dmodel, 1) ELSE <<>>,
           !.has_bias = self.use_bias,
           !.has_dropout_layer = (self.dropout > 0),
           !.built = TRUE]

\* ------------------------------------------------- MultiHeadAttention.call
\* x * mask[:, :, None]
MulMask(x, m) ==
    [b \in 1..Len(x) |-> [t \in 1..Len(x[b]) |->
        [d \in 1..Len(x[b][t]) |-> x[b][t][d] * m[b][t]]]]

\* inputs[i] after its mask, when one is given, has been multiplied in.
MaskedInput(x, mask, i) ==
    IF mask # <<>> /\ mask[i] # <<>> THEN MulMask(x, mask[i]) ELSE x

\* K.dot of a (N, T, D) tensor and a (D, M) kernel.
K_dot(x, kernel) ==
    [b \in 1..Len(x) |-> [t \in 1..Len(x[b]) |->
        [m \in 1..Len(kernel[1]) |->
            SumSeq([j \in 1..Len(kernel) |-> x[b][t][j] * kernel[j][m]])]]]

\* self.activation on an integer.
Activation(fn, v) == IF fn = "fn:relu" /\ v < 0 THEN 0 ELSE v

\* Mutant of Projection: the bias is never added.
ProjectionNoBias(self, x, kernel, bias) ==
    LET y == K_dot(x, kernel)
    IN  [b \in 1..Len(y) |-> [t \in 1..Len(y[b]) |->
            [m \in 1..Len(y[b][t]) |-> Activation(self.activation, y[b][t][m])]]]

\* One linear projection: activation(K.bias_add(K.dot(x, kernel), bias)) with
\* use_bias, activation(K.dot(x, kernel)) without.
Projection(self, x, kernel, bias) ==
    LET y == K_dot(x, kernel)
    IN  [b \in 1..Len(y) |-> [t \in 1..Len(y[b]) |->
            [m \in 1..Len(y[b][t]) |->
                Activation(self.activation,
                           IF self.use_bias THEN y[b][t][m] + bias[m]
                                            ELSE y[b][t][m])]]]

\* K.concatenate([x[:, :, i*d : (i+1)*d] for i in range(n_heads)], axis=0)
SplitHeads(x, n_heads, d) ==
    Concat([i \in 1..n_heads |->
        [b \in 1..Len(x) |-> [t \in 1..Len(x[b]) |->
            SubSeq(x[b][t], (i - 1) * d + 1, i * d)]]])

\* K.batch_dot(queries_, K.permute_dimensions(keys_, (0, 2, 1)), axes=[2, 1])
MatMul(queries_, keys_) ==
    [r \in 1..Len(queries_) |-> [q \in 1..Len(queries_[r]) |->
        [k \in 1..Len(keys_[r]) |->
            SumSeq([d \in 1..Len(queries_[r][q]) |->
                queries_[r][q][d] * keys_[r][k][d]])]]]

\* A score is the number (big * 2^32 + num) / sqrt(root).
\* matmul / K.sqrt(dk)
Scale(matmul, dk) ==
    [r \in 1..Len(matmul) |-> [q \in 1..Len(matmul[r]) |->
        [k \in 1..Len(matmul[r][q]) |->
            [big |-> 0, num |-> matmul[r][q][k], root |-> dk]]]]

\* The constant -2 ** 32 + 1 of the paddings.
PaddingValue == [big |-> -1, num |-> 1, root |-> 1]

\* Mutant of SignAbsSum: the sign of the sum of the entries themselves.
SignSum(x) ==
    [b \in 1..Len(x) |-> [t \in 1..Len(x[b]) |-> Sign(SumSeq(x[b][t]))]]

\* K.sign(K.sum(K.abs(x), axis=-1))
SignAbsSum(x) ==
    [b \in 1..Len(x) |-> [t \in 1..Len(x[b]) |->
        Sign(SumSeq([d \in 1..Len(x[b][t]) |-> Abs(x[b][t][d])]))]]

\* Mutant of Tile: every row repeated n times in place.
TileRepeatEach(x, n) == [r \in 1..(Len(x) * n) |-> x[((r - 1) \div n) + 1]]

\* K.tile(x, [n, 1])
Tile(x, n) == Concat([i \in 1..n |-> x])

\* Mutant of KeyMasks: the mask of every sample repeated in place.
KeyMasksRepeatEach(key, n_heads, T_q) ==
    LET tiled == TileRepeatEach(SignAbsSum(key), n_heads)
    IN  [r \in 1..Len(tiled) |-> [q \in 1..T_q |-> tiled[r]]]

\* The key masks, tiled over the heads and over the T_q query positions.
KeyMasks(key, n_heads, T_q) ==
    LET tiled == Tile(SignAbsSum(key), n_heads)
    IN  [r \in 1..Len(tiled) |-> [q \in 1..T_q |-> tiled[r]]]

\* K.switch(K.equal(masks, 0), paddings, attended_heads)
SwitchPaddings(masks, attended_heads) ==
    [r \in 1..Len(attended_heads) |-> [q \in 1..Len(attended_heads[r]) |->
        [k \in 1..Len(attended_heads[r][q]) |->
            IF masks[r][q][k] = 0 THEN PaddingValue
                                  ELSE attended_heads[r][q][k]]]]

\* Mutant of FutureMasks: the diagonal is masked too.
FutureMasksStrict(attended_heads) ==
    [r \in 1..Len(attended_heads) |-> [q \in 1..Len(attended_heads[r]) |->
        [k \in 1..Len(attended_heads[r][q]) |-> IF k < q THEN 1 ELSE 0]]]

\* K.tril of a (T_q, T_k) matrix of ones, tiled over the first axis.
FutureMasks(attended_heads) ==
    [r \in 1..Len(attended_heads) |-> [q \in 1..Len(attended_heads[r]) |->
        [k \in 1..Len(attended_heads[r][q]) |-> IF k <= q THEN 1 ELSE 0]]]


\* The softmax of one row of scores over its positions (K.softmax_3d
\* normalises the last axis): exp is taken with base 2 on the numerators, all
\* the scores of a call having the same root, and the exponential of a padding
\* underflows to 0 beside a score that is not one.  A row of paddings only is a
\* row of equal scores.
SoftmaxRow(row) ==
    LET plain == {k \in 1..Len(row) : row[k].big = 0}
        low == MinOf({row[k].num : k \in plain})
        w == [k \in 1..Len(row) |->
                IF plain = {} THEN 1
                ELSE IF k \in plain THEN Pow2(row[k].num - low) ELSE 0]
    IN  [k \in 1..Len(row) |-> Frac(w[k], SumSeq(w))]

\* K.softmax_3d
softmax_3d(x) ==
    [r \in 1..Len(x) |-> [q \in 1..Len(x[r]) |-> SoftmaxRow(x[r][q])]]

\* self.dropout_layer(alphas): in the training phase an element is kept
\* (keep = 1) or dropped (keep = 0) and what is kept is divided by 1 - rate.
DropoutLayer(alphas, rate, training, keep) ==
    IF training /\ 0 < rate /\ rate < 100
    THEN [r \in 1..Len(alphas) |-> [q \in 1..Len(alphas[r]) |->
            [k \in 1..Len(alphas[r][q]) |->
                Frac(alphas[r][q][k][1] * keep[r][q][k] * 100,
                     alphas[r][q][k][2] * (100 - rate))]]]
    ELSE alphas

\* The query masks, tiled over the heads and over the T_k key positions.
QueryMasks(query, n_heads, T_k) ==
    LET tiled == Tile(SignAbsSum(query), n_heads)
    IN  [r \in 1..Len(tiled) |-> [q \in 1..Len(tiled[r]) |->
            [k \in 1..T_k |-> tiled[r][q]]]]

\* Mutant of MulQueryMasks: the weights are left as they are.
MulQueryMasksSkipped(alphas, query_masks) == alphas

\* alphas * query_masks
MulQueryMasks(alphas, query_masks) ==
    [r \in 1..Len(alphas) |-> [q \in 1..Len(alphas[r]) |->
        [k \in 1..Len(alphas[r][q]) |->
            FMulInt(alphas[r][q][k], query_masks[r][q][k])]]]

\* K.batch_dot(alphas, values_, axes=[2, 1])
MatMulV(alphas, values_) ==
    [r \in 1..Len(alphas) |-> [q \in 1..Len(alphas[r]) |->
        [d \in 1..Len(values_[r][1]) |->
            FSum([k \in 1..Len(alphas[r][q]) |->
                FMulInt(alphas[r][q][k], values_[r][k][d])])]]]

\* Mutant of RestoreShape: the heads of a sample taken from neighbouring rows.
RestoreShapeInterleaved(x, n_heads) ==
    LET nb_samples == Len(x) \div n_heads
    IN  [b \in 1..nb_samples |-> [t \in 1..Len(x[b]) |->
            Concat([i \in 1..n_heads |-> x[(b - 1) * n_heads + i][t]])]]

\* K.concatenate([x[i*nb_samples : (i+1)*nb_samples, :, :]
\*                for i in range(n_heads)], axis=2)
RestoreShape(x, n_heads) ==
    LET nb_samples == Len(x) \div n_heads
    IN  [b \in 1..nb_samples |-> [t \in 1..Len(x[b]) |->
            Concat([i \in 1..n_heads |-> x[(i - 1) * nb_samples + b][t]])]]

\* self.activation on a fraction.
FActivation(fn, v) == IF fn = "fn:relu" /\ v[1] < 0 THEN <<0, 1>> ELSE v

\* The final linear: activation(K.bias_add(K.dot(x, linear_o), bias_o)) with
\* use_bias, activation(K.dot(x, linear_o)) without.
FinalLinear(self, x) ==
    [b \in 1..Len(x) |-> [t \in 1..Len(x[b]) |->
        [m \in 1..Len(self.linear_o[1]) |->
            LET y == FSum([j \in 1..Len(self.linear_o) |->
                         FMulInt(x[b][t][j], self.linear_o[j][m])])
            IN  FActivation(self.activation,
                            IF self.use_bias
                            THEN FAdd(y, <<self.bias_o[m], 1>>) ELSE y)]]]

\* call(inputs, mask, training): every tensor call computes, under the name
\* the code gives it (attended_heads is assigned several times: scaled, after
\* the key masking, after the future masking, after the product with the
\* values, after the restoring of the shape).
MHA_call(self, inputs, mask, training, keep) ==
    LET query == MaskedInput(inputs[1], mask, 1)
        key == MaskedInput(inputs[2], mask, 2)
        queries == Projection(self, query, self.linear_q, self.bias_q)
        keys == Projection(self, key, self.linear_k, self.bias_k)
        values == Projection(self, key, self.linear_v, self.bias_v)
        queries_ == SplitHeads(queries, self.n_heads, self.dk)
        keys_ == SplitHeads(keys, self.n_heads, self.dk)
        values_ == SplitHeads(values, self.n_heads, self.dv)
        matmul == MatMul(queries_, keys_)
        scaled == Scale(matmul, self.dk)
        key_masks == KeyMasks(key, self.n_heads, Len(query[1]))
        key_masked == SwitchPaddings(key_masks, scaled)
        scores == IF self.mask_future
                  THEN SwitchPaddings(FutureMasks(key_masked), key_masked)
                  ELSE key_masked
        softmax == softmax_3d(scores)
        dropped == IF self.dropout > 0
                   THEN DropoutLayer(softmax, self.dropout, training, keep)
                   ELSE softmax
        query_masks == QueryMasks(query, self.n_heads, Len(key[1]))
        alphas == MulQueryMasks(dropped, query_masks)
        heads == MatMulV(alphas, values_)
        attended_heads == RestoreShape(heads, self.n_heads)
        output == FinalLinear(self, attended_heads)
    IN  [query |-> query, key |-> key,
         queries |-> queries, keys |-> keys, values |-> values,
         queries_ |-> queries_, keys_ |-> keys_, values_ |-> values_,
         scaled |-> scaled, key_masks |-> key_masks, key_masked |-> key_masked,
         scores |-> scores, softmax |-> softmax, dropped |-> dropped,
         query_masks |-> query_masks,
         alphas |-> alphas, heads |-> heads,
         attended_heads |-> attended_heads, output |-> output]


\* ------------------------------- MultiHeadAttention.compute_output_shape
\* A dimension that is None.
NoneDim == -1

\* Mutant of MHAShapeAsserts: a last dimension of 0 passes the assertion.
MHAShapeAsserts_zero(input_shape) ==
    /\ input_shape[1] # <<>>
    /\ Len(input_shape[1]) >= 3
    /\ input_shape[1][Len(input_shape[1])] # NoneDim

\* The two assertions of compute_output_shape: input_shape[0] is not empty and
\* has at least 3 dimensions, and its last dimension is neither None nor 0.
MHAShapeAsserts(input_shape) ==
    /\ input_shape[1] # <<>>
    /\ Len(input_shape[1]) >= 3
    /\ input_shape[1][Len(input_shape[1])] # NoneDim
    /\ input_shape[1][Len(input_shape[1])] # 0

\* Mutant of MHA_compute_output_shape: the last dimension is left as it is.
MHA_compute_output_shape_same(self, input_shape) == input_shape[1]

\* The shape compute_output_shape returns when its assertions hold.
MHA_compute_output_shape(self, input_shape) ==
    [input_shape[1] EXCEPT ![Len(input_shape[1])] = self.dmodel]

\* ------------------------------------------------------ inputs of a call
RECURSIVE Pow3(_)
Pow3(n) == IF n = 0 THEN 1 ELSE 3 * Pow3(n - 1)

\* Digit p (0 or 1) of seed written in base 3.
Digit3(seed, p) == (seed \div Pow3(p)) % 3

\* The kind of the row at position p of input tensor number seed: 0 a row of
\* zeros (padding), 1 a unit row, 2 a row whose entries sum to zero.
RowKind(seed, p) == (Digit3(seed, p % 2) + 1 + (p \div 2)) % 3

RowOf(kind, p, D) ==
    [d \in 1..D |->
        CASE kind = 0 -> 0
          [] kind = 1 -> IF d = 1 + (p % D) THEN 1 ELSE 0
          [] kind = 2 -> IF d = 1 THEN -1 ELSE IF d = 2 THEN 1 ELSE 0]

\* Input tensor number seed of shape (N, T, D).
InputTensor(seed, N, T, D) ==
    [b \in 1..N |-> [t \in 1..T |->
        RowOf(RowKind(seed, (t - 1) * N + (b - 1)), (t - 1) * N + (b - 1), D)]]

\* The mask of a batch of shape (N, T) whose odd samples are one step shorter:
\* their last step is padding.
SeqMask(N, T) == [b \in 1..N |-> [t \in 1..T |-> IF b % 2 = 1 /\ t = T THEN 0 ELSE 1]]

\* The mask argument of call: None (<<>>) or a list of two masks, each of them
\* None or a mask.
MaskChoices ==
    {<<>>} \cup {<<mq, mk>> : mq \in {<<>>, SeqMask(NbSamples, QuerySteps)},
                             mk \in {<<>>, SeqMask(NbSamples, KeySteps)}}

\* Dropout mask number seed of shape (R, T_q, T_k): number 0 keeps everything,
\* the others drop every other element.
KeepTensor(seed, R, Tq, Tk) ==
    [r \in 1..R |-> [q \in 1..Tq |-> [k \in 1..Tk |->
        IF seed > 0 /\ (r + q + k + seed) % 2 = 0 THEN 0 ELSE 1]]]

\* ----------------------------------------------------------------- state
VARIABLES
    pc,      \* "new", "constructed" or "built": how far the layer has come
    layer,   \* the layer object
    args,    \* the arguments of the constructor call
    op,      \* the last operation
    arg,     \* its argument
    raised,  \* the exception it raised, or "none"
    res      \* its result

vars == <<pc, layer, args, op, arg, raised, res>>

NoLayer == [built |-> FALSE]
Nothing == <<>>

\* The constructor arguments of the forward pass: the ones call reads.
ForwardArgs ==
    {[MHADefaults EXCEPT !.mask_future = mf, !.use_bias = ub,
                         !.activation = act, !.dropout = dr]
        @@ [n_heads |-> h, dmodel |-> dm] :
        h \in 1..MaxHeads, dm \in 1..MaxDmodel, mf \in BOOLEAN, ub \in BOOLEAN,
        act \in {"relu", None}, dr \in {0, 50}}

Init ==
    /\ pc = "new"
    /\ layer = NoLayer
    /\ args = Nothing
    /\ op = "none"
    /\ arg = Nothing
    /\ raised = "none"
    /\ res = Nothing

\* layer = MultiHeadAttention(**a), the first statement of a run: a
\* constructor that raised leaves no layer, and a second attempt shows nothing
\* the first does not.
Construct(A) ==
    /\ pc = "new"
    /\ op = "none"
    /\ \E a \in A :
        /\ args' = a
        /\ op' = "__init__"
        /\ arg' = Nothing
        /\ res' = Nothing
        /\ IF MHAInitAsserts(a)
           THEN /\ layer' = MHA_init(a)
                /\ pc' = "constructed"
                /\ raised' = "none"
           ELSE /\ raised' = "AssertionError"
                /\ UNCHANGED <<layer, pc>>

\* The input shapes of the tensors of a call.
QueryShape == <<NbSamples, QuerySteps, QueryDim>>
KeyShape == <<NbSamples, KeySteps, KeyDim>>

\* layer.build(input_shape)
Build ==
    /\ pc = "constructed"
    /\ \E input_shape \in {<<>>, <<QueryShape>>, <<QueryShape, KeyShape>>,
                           <<QueryShape, KeyShape, KeyShape>>} :
        /\ op' = "build"
        /\ arg' = input_shape
        /\ res' = Nothing
        /\ UNCHANGED args
        /\ IF MHABuildAsserts(input_shape)
           THEN /\ layer' = MHA_build(layer, input_shape)
                /\ pc' = "built"
                /\ raised' = "none"
           ELSE /\ raised' = "AssertionError"
                /\ UNCHANGED <<layer, pc>>

\* layer.call(inputs, mask), once the layer is built: in the test phase, or,
\* for a layer with dropout, in the training phase with a dropout mask.  The
\* inputs are a list of a query and a key tensor, with or without a third
\* tensor after them.  call leaves the layer as it is, so a later call shows
\* nothing the first does not.
Call ==
    /\ pc = "built"
    /\ op = "build"
    /\ \E qs \in 0..MaxQSeed, ks \in 0..MaxKSeed, mask \in MaskChoices,
          ds \in IF layer.dropout > 0 THEN 0..MaxDropSeed ELSE {0},
          third \in BOOLEAN :
        LET inputs == <<InputTensor(qs, NbSamples, QuerySteps, QueryDim),
                        InputTensor(ks, NbSamples, KeySteps, KeyDim)>>
                      \o (IF third
                          THEN <<InputTensor((ks + 1) % (MaxKSeed + 1),
                                             NbSamples, KeySteps, KeyDim)>>
                          ELSE <<>>)
            training == ds > 0
            keep == KeepTensor(ds, layer.n_heads * NbSamples, QuerySteps, KeySteps)
        IN  /\ op' = "call"
            /\ arg' = [inputs |-> inputs, mask |-> mask, training |-> training,
                       keep |-> keep]
            /\ res' = MHA_call(layer, inputs, mask, training, keep)
            /\ raised' = "none"
            /\ UNCHANGED <<pc, layer, args>>

\* The input shapes compute_output_shape is called with: those of a call, and
\* shapes that are empty, too short, or end in an undefined dimension.
ShapeChoices ==
    {<<QueryShape, KeyShape>>, <<KeyShape, QueryShape>>,
     <<<<NoneDim, QuerySteps, QueryDim>>, <<NoneDim, KeySteps, KeyDim>>>>,
     <<<<NbSamples, QuerySteps, QuerySteps, QueryDim>>, KeyShape>>,
     <<<<>>, KeyShape>>, <<<<NbSamples, QueryDim>>, KeyShape>>,
     <<<<NbSamples, QuerySteps, NoneDim>>, KeyShape>>,
     <<<<NbSamples, QuerySteps, 0>>, KeyShape>>,
     <<QueryShape, <<>>>>, <<QueryShape, <<NbSamples, KeyDim>>>>,
     <<<<NbSamples, QueryDim>>, <<>>>>}

\* layer.compute_output_shape(input_shape).  It leaves the layer as it is.
ComputeOutputShape ==
    /\ pc \in {"constructed", "built"}
    /\ op \in {"__init__", "build"}
    /\ \E input_shape \in ShapeChoices :
        /\ op' = "compute_output_shape"
        /\ arg' = input_shape
        /\ UNCHANGED <<pc, layer, args>>
        /\ IF MHAShapeAsserts(input_shape)
           THEN /\ res' = MHA_compute_output_shape(layer, input_shape)
                /\ raised' = "none"
           ELSE /\ res' = Nothing
                /\ raised' = "AssertionError"

Next == Construct(ForwardArgs) \/ Build \/ Call \/ ComputeOutputShape

Spec == Init /\ [][Next]_vars


\* ======================================================== the claims
\* What the claims about call say of a state reached by a call.
Called == op = "call"

SampleOf(r) == ((r - 1) % NbSamples) + 1
HeadOf(r) == ((r - 1) \div NbSamples) + 1
Rows == 1..(layer.n_heads * NbSamples)

\* The value of mask i of the call at (b, t); 1 when the mask is not given.
MaskAt(i, b, t) ==
    IF arg.mask # <<>> /\ arg.mask[i] # <<>> THEN arg.mask[i][b][t] ELSE 1

\* Input i of the call has, once its mask is multiplied in, a row of zeros at (b, t).
ZeroRow(i, b, t) ==
    \A d \in 1..Len(arg.inputs[i][b][t]) :
        arg.inputs[i][b][t][d] * MaskAt(i, b, t) = 0

\* The scaled dot product of query position q and key position k in row r of
\* the stacked heads, from the projections before they are split.
ScaledDot(r, q, k) ==
    LET b == SampleOf(r)
        off == (HeadOf(r) - 1) * layer.dk
    IN  [big |-> 0,
         num |-> SumSeq([d \in 1..layer.dk |->
                    res.queries[b][q][off + d] * res.keys[b][k][off + d]]),
         root |-> layer.dk]

\* C1: with mask_future off, the pre-softmax score of every head, sample and
\* query position is the constant -2^32+1 at every key position whose key
\* vector (after the key mask) is all zeros, and the scaled dot product at
\* every other key position.
C1_KeyMasking ==
    (Called /\ ~layer.mask_future) =>
        \A r \in Rows, q \in 1..QuerySteps, k \in 1..KeySteps :
            res.scores[r][q][k] =
                IF ZeroRow(2, SampleOf(r), k) THEN PaddingValue
                                              ELSE ScaledDot(r, q, k)

\* C1 witness: a call without future mask, with a key mask, two heads, a key
\* row of zeros, a key row the mask zeroes and a non-zero key row whose entries
\* sum to zero.
C1_Witness ==
    /\ Called /\ ~layer.mask_future /\ layer.n_heads = 2
    /\ arg.mask # <<>> /\ arg.mask[2] # <<>>
    /\ \E b \in 1..NbSamples, k \in 1..KeySteps :
        /\ ZeroRow(2, b, k) /\ arg.inputs[2][b][k][1] # 0
    /\ \E b \in 1..NbSamples, k \in 1..KeySteps :
        /\ ~ZeroRow(2, b, k) /\ SumSeq(arg.inputs[2][b][k]) = 0
        /\ res.scores[b][1][k] # PaddingValue
    /\ \E b \in 1..NbSamples, k \in 1..KeySteps :
        /\ MaskAt(2, b, k) = 1 /\ ZeroRow(2, b, k)
        /\ res.scores[NbSamples + b][QuerySteps][k] = PaddingValue

\* C2: with mask_future the pre-softmax score at (q, k) is the constant
\* -2^32+1 whenever k > q and is what the key masking left whenever k <= q;
\* without mask_future every score is what the key masking left.
C2_FutureMasking ==
    Called =>
        \A r \in Rows, q \in 1..QuerySteps, k \in 1..KeySteps :
            res.scores[r][q][k] =
                IF layer.mask_future /\ k > q THEN PaddingValue
                ELSE IF ZeroRow(2, SampleOf(r), k) THEN PaddingValue
                ELSE res.scaled[r][q][k]

\* C2 witness: a call with mask_future in which a future key position is not
\* padding and its scaled dot product is not zero, and a past one keeps a
\* non-zero score.
C2_Witness ==
    /\ Called /\ layer.mask_future
    /\ \E r \in Rows, q \in 1..QuerySteps, k \in 1..KeySteps :
        /\ k > q /\ ~ZeroRow(2, SampleOf(r), k)
        /\ res.scaled[r][q][k].num # 0
        /\ res.scores[r][q][k] = PaddingValue
    /\ \E r \in Rows, q \in 1..QuerySteps, k \in 1..KeySteps :
        /\ k <= q /\ res.scores[r][q][k].big = 0 /\ res.scores[r][q][k].num # 0

\* C3: splitting the last axis into n_heads slices of width d stacked along
\* the batch axis (head i of sample b at row i*N + b) and then concatenating
\* the n_heads blocks of N rows along the last axis gives the tensor back.
C3_SplitRestore ==
    Called =>
        /\ \A x \in {res.queries, res.keys, res.values} :
            RestoreShape(SplitHeads(x, layer.n_heads, layer.dk), layer.n_heads) = x
        /\ LET keys_ == SplitHeads(res.keys, layer.n_heads, layer.dk)
           IN  \A i \in 1..layer.n_heads, b \in 1..NbSamples, t \in 1..KeySteps,
                  d \in 1..layer.dk :
                   keys_[(i - 1) * NbSamples + b][t][d]
                       = res.keys[b][t][(i - 1) * layer.dk + d]

\* C3 witness: a call with two heads whose projected keys differ between the
\* two heads and between the two samples.
C3_Witness ==
    /\ Called /\ layer.n_heads = 2
    /\ res.keys_[1] # res.keys_[NbSamples + 1]
    /\ res.keys_[1] # res.keys_[2]
    /\ res.keys[1] # res.keys[2]


\* Scaled dot-product attention of one head of one sample, as a function of
\* that head's slices (qs, ks, vs), of the sample's key and query masks (km,
\* qm: 0 at a padding position) and of the head's dropout mask alone.
HeadAttention(qs, ks, vs, km, qm, keep) ==
    LET score(q, k) ==
            IF km[k] = 0 \/ (layer.mask_future /\ k > q) THEN PaddingValue
            ELSE [big |-> 0,
                  num |-> SumSeq([d \in 1..Len(qs[q]) |-> qs[q][d] * ks[k][d]]),
                  root |-> layer.dk]
        drop(q, a) ==
            IF arg.training /\ layer.dropout > 0
            THEN [k \in 1..Len(ks) |->
                    Frac(a[k][1] * keep[q][k] * 100, a[k][2] * (100 - layer.dropout))]
            ELSE a
        weights(q) == drop(q, SoftmaxRow([k \in 1..Len(ks) |-> score(q, k)]))
    IN  [q \in 1..Len(qs) |->
            LET w == weights(q)
            IN  [d \in 1..Len(vs[1]) |->
                    FSum([k \in 1..Len(ks) |->
                        FMulInt(FMulInt(w[k], qm[q]), vs[k][d])])]]

\* Slice i (of width d) of the rows of sample b of x.
SliceOf(x, b, i, d) ==
    [t \in 1..Len(x[b]) |-> SubSeq(x[b][t], (i - 1) * d + 1, i * d)]

\* C4: the attended vectors of head i for sample b (features [i*dv, (i+1)*dv)
\* before the final projection) are a function of slice i of the projected
\* queries, keys and values of sample b and of sample b's masks alone: no
\* other head and no other sample enters them.
C4_HeadsIndependent ==
    Called =>
        \A i \in 1..layer.n_heads, b \in 1..NbSamples :
            SliceOf(res.attended_heads, b, i, layer.dv) =
                HeadAttention(SliceOf(res.queries, b, i, layer.dk),
                              SliceOf(res.keys, b, i, layer.dk),
                              SliceOf(res.values, b, i, layer.dv),
                              [k \in 1..KeySteps |-> IF ZeroRow(2, b, k) THEN 0 ELSE 1],
                              [q \in 1..QuerySteps |-> IF ZeroRow(1, b, q) THEN 0 ELSE 1],
                              arg.keep[(i - 1) * NbSamples + b])

\* C4 witness: a call with two heads in which the two heads of a sample, and
\* the two samples of a head, attend to different vectors, the samples having
\* different key masks.
C4_Witness ==
    /\ Called /\ layer.n_heads = 2
    /\ SliceOf(res.attended_heads, 1, 1, layer.dv) # SliceOf(res.attended_heads, 1, 2, layer.dv)
    /\ SliceOf(res.attended_heads, 1, 1, layer.dv) # SliceOf(res.attended_heads, 2, 1, layer.dv)
    /\ \E k \in 1..KeySteps : ZeroRow(2, 1, k) /\ ~ZeroRow(2, 2, k)
    /\ \E t \in 1..QuerySteps : res.attended_heads[1][t][1][1] # 0

\* n is a multiple of m.
MultipleOf(n, m) == \E c \in 0..n : n = c * m

\* C5: the constructor fails with an assertion error exactly when dmodel is
\* not a multiple of n_heads, and then leaves no layer; when it is, the layer
\* has dk = dv and n_heads*dk = n_heads*dv = dmodel.
C5_InitAssertion ==
    op = "__init__" =>
        /\ (raised = "AssertionError") <=> ~MultipleOf(args.dmodel, args.n_heads)
        /\ raised = "AssertionError" => (pc = "new" /\ layer = NoLayer)
        /\ raised # "AssertionError" =>
            /\ raised = "none" /\ pc = "constructed"
            /\ layer.n_heads = args.n_heads /\ layer.dmodel = args.dmodel
            /\ layer.dk = layer.dv
            /\ layer.n_heads * layer.dk = layer.dmodel
            /\ layer.n_heads * layer.dv = layer.dmodel

\* C5 witness: a constructor call that failed, with n_heads > 1 and dmodel > 0.
C5_Witness ==
    /\ op = "__init__" /\ raised = "AssertionError"
    /\ args.n_heads > 1 /\ args.dmodel > 0

\* The shapes of the two inputs of the call.
InputShapes == <<Shape3(arg.inputs[1]), Shape3(arg.inputs[2])>>

\* C6: for input shapes [(N, T_q, D_q), (N, T_k, D_k)] the tensor call returns
\* has shape (N, T_q, dmodel), which is what compute_output_shape returns for
\* these shapes, with and without bias and mask_future.
C6_OutputShape ==
    Called =>
        /\ Shape3(res.output) = <<NbSamples, QuerySteps, layer.dmodel>>
        /\ \A b \in 1..NbSamples, t \in 1..QuerySteps :
            Len(res.output[b][t]) = layer.dmodel
        /\ MHAShapeAsserts(InputShapes)
        /\ Shape3(res.output) = MHA_compute_output_shape(layer, InputShapes)

\* C6 witness: a call of a layer with two heads, bias and mask_future whose
\* dmodel differs from the last dimension of the keys, the queries and the
\* keys having different numbers of steps.
C6_Witness ==
    /\ Called /\ layer.n_heads = 2 /\ layer.use_bias /\ layer.mask_future
    /\ layer.dmodel # KeyDim /\ QuerySteps # KeySteps
    /\ Shape3(res.output) = <<NbSamples, QuerySteps, layer.dmodel>>


\* ============================================ configuration of the layers
\* ------------------------------------------ MultiHeadAttention.get_config
\* Layer.get_config of the base class: the name of the layer and trainable.
Layer_get_config(self) == [name |-> self.name, trainable |-> self.trainable]

\* The dictionary get_config returns: the base configuration and the ten keys
\* the method adds.
MHA_get_config(self) ==
    [n_heads |-> self.n_heads,
     dmodel |-> self.dmodel,
     activation |-> activations_serialize(self.activation),
     use_bias |-> self.use_bias,
     kernel_initializer |-> keras_serialize(self.kernel_initializer),
     kernel_regularizer |-> keras_serialize(self.kernel_regularizer),
     kernel_constraint |-> keras_serialize(self.kernel_constraint),
     activity_regularizer |-> keras_serialize(self.activity_regularizer),
     dropout |-> self.dropout,
     mask_future |-> self.mask_future]
    @@ Layer_get_config(self)

\* The arguments the constructor receives from MultiHeadAttention(**config):
\* a parameter the dictionary does not name takes its default.
MHA_bind(config) == config @@ MHADefaults

\* The constructor arguments of the configuration: every keyword parameter
\* takes its default or another value.
ConfigArgs ==
    {[n_heads |-> h, dmodel |-> dm, mask_future |-> mf, dropout |-> dr,
      activation |-> act, use_bias |-> ub,
      kernel_initializer |-> ki, kernel_regularizer |-> kr,
      activity_regularizer |-> ar, kernel_constraint |-> kc,
      bias_initializer |-> bi, bias_regularizer |-> br,
      bias_constraint |-> bc,
      name |-> "att", trainable |-> TRUE] :
        h \in 1..MaxHeads, dm \in 1..MaxDmodel, mf \in BOOLEAN, dr \in {0, 50},
        act \in {"relu", None}, ub \in BOOLEAN,
        ki \in {"glorot_uniform", "ones"}, kr \in {None, "l2"},
        ar \in {None, "l2"}, kc \in {None, "non_neg"},
        bi \in {"zeros", "ones"}, br \in {None, "l2"},
        bc \in {None, "non_neg"}}

\* config = layer.get_config().  It leaves the layer as it is.
GetConfig ==
    /\ pc = "constructed"
    /\ op = "__init__"
    /\ op' = "get_config"
    /\ arg' = Nothing
    /\ res' = MHA_get_config(layer)
    /\ raised' = "none"
    /\ UNCHANGED <<pc, layer, args>>

\* clone = MultiHeadAttention(**config), and clone.get_config().  The layer
\* the configuration came from stays as it is.
FromConfig ==
    /\ pc = "constructed"
    /\ op = "get_config"
    /\ op' = "from_config"
    /\ arg' = res
    /\ UNCHANGED <<pc, layer, args>>
    /\ IF MHAInitAsserts(MHA_bind(res))
       THEN /\ res' = [config |-> res,
                       clone |-> MHA_init(MHA_bind(res)),
                       clone_config |-> MHA_get_config(MHA_init(MHA_bind(res)))]
            /\ raised' = "none"
       ELSE /\ res' = Nothing
            /\ raised' = "AssertionError"


\* ------------------------------- get_config of the layers of the old API
\* Attention, SoftAttention, SoftMultistepsAttention, AttentionComplex, ConvAtt
\* and ConvCoAtt.  get_config is a function of the attributes of the object;
\* an object holds the attributes the body of its constructor assigns, a
\* function being written "fn:<name>" and an instance "obj:<Class>".
LegacyClasses ==
    {"Attention", "SoftAttention", "SoftMultistepsAttention",
     "AttentionComplex", "ConvAtt", "ConvCoAtt"}

\* The names of the parameters of the constructor of a class (**kwargs apart).
CtorParams(cls) ==
    CASE cls = "Attention" ->
            {"nb_attention", "init", "inner_init", "forget_bias_init",
             "activation", "inner_activation", "dropout_Wa", "Wa_regularizer",
             "ba_regularizer"}
      [] cls = "SoftAttention" ->
            {"att_dim", "sum_weighted_output", "init", "activation",
             "dropout_Wa", "dropout_Ua", "wa_regularizer", "Wa_regularizer",
             "Ua_regularizer", "ba_regularizer", "ca_regularizer"}
      [] cls = "SoftMultistepsAttention" ->
            {"att_dim", "sum_weighted_output", "init", "activation",
             "return_sequences", "dropout_Wa", "dropout_Ua", "wa_regularizer",
             "Wa_regularizer", "Ua_regularizer", "ba_regularizer",
             "ca_regularizer"}
      [] cls = "AttentionComplex" ->
            {"nb_attention", "init", "inner_init", "forget_bias_init",
             "activation", "inner_activation", "dropout_w", "dropout_W",
             "dropout_Wa", "w_regularizer", "W_regularizer", "b_regularizer",
             "Wa_regularizer", "ba_regularizer"}
      [] cls = "ConvAtt" ->
            {"nb_embedding", "nb_glimpses", "concat_timesteps", "init",
             "activation", "weights", "return_states", "border_mode",
             "dim_ordering", "W_regularizer", "U_regularizer", "V_regularizer",
             "b_regularizer", "activity_regularizer", "W_constraint",
             "U_constraint", "V_constraint", "b_constraint",
             "W_learning_rate_multiplier", "b_learning_rate_multiplier",
             "bias"}
      [] cls = "ConvCoAtt" ->
            {"nb_embedding", "nb_glimpses", "concat_timesteps", "init",
             "activation", "weights", "return_states", "border_mode",
             "dim_ordering", "W_regularizer", "U_regularizer", "b_regularizer",
             "activity_regularizer", "W_constraint", "U_constraint",
             "b_constraint", "W_learning_rate_multiplier",
             "b_learning_rate_multiplier", "bias"}

\* The parameters without a default: a call that does not give them is a
\* TypeError.
RequiredParams(cls) ==
    CASE cls \in {"SoftAttention", "SoftMultistepsAttention"} -> {"att_dim"}
      [] cls \in {"Attention", "AttentionComplex"} -> {"nb_attention"}
      [] cls \in {"ConvAtt", "ConvCoAtt"} -> {"nb_embedding"}

\* f.__name__
FunctionName(fn) ==
    CASE fn = "fn:glorot_uniform" -> "glorot_uniform"
      [] fn = "fn:orthogonal"     -> "orthogonal"
      [] fn = "fn:one"            -> "one"
      [] fn = "fn:linear"         -> "linear"
      [] fn = "fn:relu"           -> "relu"
      [] fn = "fn:tanh"           -> "tanh"
      [] fn = "fn:hard_sigmoid"   -> "hard_sigmoid"

\* x.get_config() if x else None, of a regularizer or a constraint: the
\* dictionary of the instance's own parameters, written "dict:<Class>".
InstanceConfig(x) ==
    CASE x = None         -> None
      [] x = "obj:L1L2"   -> "dict:L1L2"
      [] x = "obj:NonNeg" -> "dict:NonNeg"

\* The objects of the old API get_config is applied to: for each class, the
\* size, one flag, one regularizer (and constraint) and one dropout rate take
\* two values each.
LegacyLayers ==
    {[class |-> "Attention", name |-> "attention_1", trainable |-> TRUE,
      nb_attention |-> n, init |-> "fn:glorot_uniform",
      inner_init |-> "fn:orthogonal", forget_bias_init |-> "fn:one",
      activation |-> "fn:tanh",
      inner_activation |-> IF f THEN "fn:hard_sigmoid" ELSE "fn:tanh",
      Wa_regularizer |-> r, ba_regularizer |-> None, dropout_Wa |-> d] :
        n \in 1..MaxHeads, f \in BOOLEAN, r \in {None, "obj:L1L2"},
        d \in {0, 50}}
    \cup
    {[class |-> "SoftAttention", name |-> "softattention_1",
      trainable |-> TRUE, att_dim |-> n, sum_weighted_output |-> f,
      init |-> "fn:glorot_uniform", activation |-> "fn:tanh",
      dropout_Wa |-> d, dropout_Ua |-> 0, wa_regularizer |-> r,
      Wa_regularizer |-> None, Ua_regularizer |-> None,
      ba_regularizer |-> None, ca_regularizer |-> None] :
        n \in 1..MaxHeads, f \in BOOLEAN, r \in {None, "obj:L1L2"},
        d \in {0, 50}}
    \cup
    {[class |-> "SoftMultistepsAttention", name |-> "softmultistepsattention_1",
      trainable |-> TRUE, att_dim |-> n, sum_weighted_output |-> TRUE,
      return_sequences |-> f,
      init |-> "fn:glorot_uniform", activation |-> "fn:tanh",
      dropout_Wa |-> d, dropout_Ua |-> 0, wa_regularizer |-> r,
      Wa_regularizer |-> None, Ua_regularizer |-> None,
      ba_regularizer |-> None, ca_regularizer |-> None] :
        n \in 1..MaxHeads, f \in BOOLEAN, r \in {None, "obj:L1L2"},
        d \in {0, 50}}
    \cup
    {[class |-> "AttentionComplex", name |-> "attentioncomplex_1",
      trainable |-> TRUE, nb_attention |-> n, init |-> "fn:glorot_uniform",
      inner_init |-> "fn:orthogonal", forget_bias_init |-> "fn:one",
      activation |-> "fn:tanh",
      inner_activation |-> IF f THEN "fn:hard_sigmoid" ELSE "fn:tanh",
      w_regularizer |-> r, W_regularizer |-> None, b_regularizer |-> None,
      Wa_regularizer |-> None, ba_regularizer |-> None,
      dropout_w |-> d, dropout_W |-> 0, dropout_Wa |-> 0] :
        n \in 1..MaxHeads, f \in BOOLEAN, r \in {None, "obj:L1L2"},
        d \in {0, 50}}
    \cup
    {[class |-> "ConvAtt", name |-> "convatt_1", trainable |-> TRUE,
      nb_embedding |-> n, nb_glimpses |-> g, concat_timesteps |-> TRUE,
      return_states |-> f, init |-> "fn:glorot_uniform",
      activation |-> "fn:linear", border_mode |-> "valid",
      dim_ordering |-> "th", W_regularizer |-> r,
      U_regularizer |-> IF g > 0 THEN r ELSE None, V_regularizer |-> None,
      b_regularizer |-> None, activity_regularizer |-> None,
      W_constraint |-> IF r = None THEN None ELSE "obj:NonNeg",
      U_constraint |-> None, V_constraint |-> None, b_constraint |-> None,
      W_learning_rate_multiplier |-> None,
      b_learning_rate_multiplier |-> None, bias |-> TRUE] :
        n \in 1..MaxHeads, g \in 0..1, f \in BOOLEAN,
        r \in {None, "obj:L1L2"}}
    \cup
    {[class |-> "ConvCoAtt", name |-> "convcoatt_1", trainable |-> TRUE,
      nb_embedding |-> n, nb_glimpses |-> g, concat_timesteps |-> TRUE,
      return_states |-> f, init |-> "fn:glorot_uniform",
      activation |-> "fn:linear", border_mode |-> "valid",
      dim_ordering |-> "th", W_regularizer |-> r,
      U_regularizer |-> IF g > 0 THEN r ELSE None,
      b_regularizer |-> None, activity_regularizer |-> None,
      W_constraint |-> IF r = None THEN None ELSE "obj:NonNeg",
      U_constraint |-> None, b_constraint |-> None,
      W_learning_rate_multiplier |-> None,
      b_learning_rate_multiplier |-> None, bias |-> TRUE] :
        n \in 1..MaxHeads, g \in 0..1, f \in BOOLEAN,
        r \in {None, "obj:L1L2"}}

\* Attention.get_config: the keys the method adds.
Attention_get_config(self) ==
    [nb_attention |-> self.nb_attention,
     kernel_initializer |-> FunctionName(self.init),
     recurrent_initializer |-> FunctionName(self.inner_init),
     forget_bias_initializer |-> FunctionName(self.forget_bias_init),
     activation |-> FunctionName(self.activation),
     recurrent_activation |-> FunctionName(self.inner_activation),
     Wa_regularizer |-> InstanceConfig(self.Wa_regularizer),
     ba_regularizer |-> InstanceConfig(self.ba_regularizer),
     dropout_Wa |-> self.dropout_Wa]

\* SoftAttention.get_config: the keys the method adds.
SoftAttention_get_config(self) ==
    [att_units |-> self.att_dim,
     kernel_initializer |-> FunctionName(self.init),
     activation |-> FunctionName(self.activation),
     sum_weighted_output |-> self.sum_weighted_output,
     wa_regularizer |-> InstanceConfig(self.wa_regularizer),
     Wa_regularizer |-> InstanceConfig(self.Wa_regularizer),
     Ua_regularizer |-> InstanceConfig(self.Ua_regularizer),
     ba_regularizer |-> InstanceConfig(self.ba_regularizer),
     ca_regularizer |-> InstanceConfig(self.ca_regularizer),
     dropout_Wa |-> self.dropout_Wa,
     dropout_Ua |-> self.dropout_Ua]

\* SoftMultistepsAttention.get_config: the keys the method adds.
SoftMultistepsAttention_get_config(self) ==
    [att_units |-> self.att_dim,
     kernel_initializer |-> FunctionName(self.init),
     activation |-> FunctionName(self.activation),
     sum_weighted_output |-> self.sum_weighted_output,
     return_sequences |-> self.return_sequences,
     wa_regularizer |-> InstanceConfig(self.wa_regularizer),
     Wa_regularizer |-> InstanceConfig(self.Wa_regularizer),
     Ua_regularizer |-> InstanceConfig(self.Ua_regularizer),
     ba_regularizer |-> InstanceConfig(self.ba_regularizer),
     ca_regularizer |-> InstanceConfig(self.ca_regularizer),
     dropout_Wa |-> self.dropout_Wa,
     dropout_Ua |-> self.dropout_Ua]

\* AttentionComplex.get_config: the keys the method adds.
AttentionComplex_get_config(self) ==
    [nb_attention |-> self.nb_attention,
     kernel_initializer |-> FunctionName(self.init),
     recurrent_initializer |-> FunctionName(self.inner_init),
     forget_bias_initializer |-> FunctionName(self.forget_bias_init),
     activation |-> FunctionName(self.activation),
     recurrent_activation |-> FunctionName(self.inner_activation),
     w_regularizer |-> InstanceConfig(self.w_regularizer),
     W_regularizer |-> InstanceConfig(self.W_regularizer),
     b_regularizer |-> InstanceConfig(self.b_regularizer),
     Wa_regularizer |-> InstanceConfig(self.Wa_regularizer),
     ba_regularizer |-> InstanceConfig(self.ba_regularizer),
     dropout_w |-> self.dropout_w,
     dropout_W |-> self.dropout_W,
     dropout_Wa |-> self.dropout_Wa]

\* ConvAtt.get_config: the keys the method adds.
ConvAtt_get_config(self) ==
    [nb_embedding |-> self.nb_embedding,
     nb_glimpses |-> self.nb_glimpses,
     concat_timesteps |-> self.concat_timesteps,
     return_state |-> self.return_states,
     kernel_initializer |-> FunctionName(self.init),
     activation |-> FunctionName(self.activation),
     border_mode |-> self.border_mode,
     dim_ordering |-> self.dim_ordering,
     W_regularizer |-> InstanceConfig(self.W_regularizer),
     U_regularizer |-> InstanceConfig(self.U_regularizer),
     V_regularizer |-> InstanceConfig(self.V_regularizer),
     b_regularizer |-> InstanceConfig(self.b_regularizer),
     activity_regularizer |-> InstanceConfig(self.activity_regularizer),
     W_constraint |-> InstanceConfig(self.W_constraint),
     U_constraint |-> InstanceConfig(self.U_constraint),
     V_constraint |-> InstanceConfig(self.V_constraint),
     b_constraint |-> InstanceConfig(self.b_constraint),
     W_learning_rate_multiplier |-> self.W_learning_rate_multiplier,
     b_learning_rate_multiplier |-> self.b_learning_rate_multiplier,
     bias |-> self.bias]

\* ConvCoAtt.get_config: the keys the method adds.
ConvCoAtt_get_config(self) ==
    [nb_embedding |-> self.nb_embedding,
     nb_glimpses |-> self.nb_glimpses,
     concat_timesteps |-> self.concat_timesteps,
     return_state |-> self.return_states,
     kernel_initializer |-> FunctionName(self.init),
     activation |-> FunctionName(self.activation),
     border_mode |-> self.border_mode,
     dim_ordering |-> self.dim_ordering,
     W_regularizer |-> InstanceConfig(self.W_regularizer),
     U_regularizer |-> InstanceConfig(self.U_regularizer),
     b_regularizer |-> InstanceConfig(self.b_regularizer),
     activity_regularizer |-> InstanceConfig(self.activity_regularizer),
     W_constraint |-> InstanceConfig(self.W_constraint),
     U_constraint |-> InstanceConfig(self.U_constraint),
     b_constraint |-> InstanceConfig(self.b_constraint),
     W_learning_rate_multiplier |-> self.W_learning_rate_multiplier,
     b_learning_rate_multiplier |-> self.b_learning_rate_multiplier,
     bias |-> self.bias]

\* The keys get_config of the object's class adds to the base configuration.
Legacy_config(self) ==
    CASE self.class = "Attention" -> Attention_get_config(self)
      [] self.class = "SoftAttention" -> SoftAttention_get_config(self)
      [] self.class = "SoftMultistepsAttention" ->
            SoftMultistepsAttention_get_config(self)
      [] self.class = "AttentionComplex" -> AttentionComplex_get_config(self)
      [] self.class = "ConvAtt" -> ConvAtt_get_config(self)
      [] self.class = "ConvCoAtt" -> ConvCoAtt_get_config(self)

\* dict(list(base_config.items()) + list(config.items()))
Legacy_get_config(self) == Legacy_config(self) @@ Layer_get_config(self)

\* The names the module binds at its top: the imports, and the classes it
\* defines.
ModuleNames ==
    {"absolute_import", "np", "K", "activations", "initializers",
     "regularizers", "constraints", "Layer", "InputSpec", "Dense",
     "Concatenate", "TimeDistributed", "Slice", "Dropout",
     "MultiHeadAttention"} \cup LegacyClasses

\* K.image_dim_ordering(): the ordering of the backend's configuration.
K_image_dim_ordering == "th"

\* The value of parameter k in a call with the keyword arguments kw.
KwGet(kw, k, default) == IF k \in DOMAIN kw THEN kw[k] ELSE default

\* dim_ordering after 'default' has been resolved.
Resolved_dim_ordering(kw) ==
    LET d == KwGet(kw, "dim_ordering", "default")
    IN  IF d = "default" THEN K_image_dim_ordering ELSE d

\* What cls(**kw) raises, statement by statement: TypeError when a parameter
\* without default is not given; in ConvAtt and ConvCoAtt ValueError from
\* the check of border_mode; NameError from the statement that resolves init
\* when the module has no name initializations; in ConvAtt and ConvCoAtt
\* ValueError from the check of dim_ordering, which comes after it.
Legacy_init_raises(cls, kw) ==
    IF ~(RequiredParams(cls) \subseteq DOMAIN kw)
    THEN "TypeError"
    ELSE IF /\ cls \in {"ConvAtt", "ConvCoAtt"}
            /\ KwGet(kw, "border_mode", "valid") \notin {"valid", "same", "full"}
    THEN "ValueError"
    ELSE IF "initializations" \notin ModuleNames
    THEN "NameError"
    ELSE IF /\ cls \in {"ConvAtt", "ConvCoAtt"}
            /\ Resolved_dim_ordering(kw) \notin {"tf", "th"}
    THEN "ValueError"
    ELSE "none"

\* config = layer.get_config() of a layer of the old API.
LegacyGetConfig ==
    /\ pc = "legacy"
    /\ op = "none"
    /\ op' = "get_config"
    /\ arg' = Nothing
    /\ res' = Legacy_get_config(layer)
    /\ raised' = "none"
    /\ UNCHANGED <<pc, layer, args>>

\* cls(**config) with the configuration of a layer of the old API.
LegacyFromConfig ==
    /\ pc = "legacy"
    /\ op = "get_config"
    /\ op' = "from_config"
    /\ arg' = res
    /\ res' = Nothing
    /\ raised' = Legacy_init_raises(layer.class, res)
    /\ UNCHANGED <<pc, layer, args>>

\* The keyword arguments of a call of the constructor of a class of the old
\* API: the parameter without default given or not, and for ConvAtt and
\* ConvCoAtt a border_mode and a dim_ordering, valid or not.
LegacyArgs(cls) ==
    LET size == CHOOSE k \in RequiredParams(cls) : TRUE
        sizes == {[k \in {} |-> 0]}
                 \cup {[k \in {size} |-> n] : n \in 1..MaxHeads}
        inits == {[k \in {} |-> 0], [k \in {"init"} |-> "orthogonal"]}
        modes == IF cls \in {"ConvAtt", "ConvCoAtt"}
                 THEN {[k \in {} |-> 0]}
                      \cup {[k \in {"border_mode"} |-> m] :
                                m \in {"valid", "same", "full", "causal"}}
                 ELSE {[k \in {} |-> 0]}
        orderings == IF cls \in {"ConvAtt", "ConvCoAtt"}
                     THEN {[k \in {} |-> 0]}
                          \cup {[k \in {"dim_ordering"} |-> d] :
                                    d \in {"default", "tf", "th",
                                           "channels_last"}}
                     ELSE {[k \in {} |-> 0]}
    IN  {a @@ b @@ c @@ d :
            a \in sizes, b \in inits, c \in modes, d \in orderings}

\* layer = cls(**kw) for a class of the old API, the first statement of a run.
LegacyConstruct ==
    /\ pc = "new"
    /\ op = "none"
    /\ \E cls \in LegacyClasses : \E kw \in LegacyArgs(cls) :
        /\ args' = [class |-> cls, kw |-> kw]
        /\ op' = "legacy __init__"
        /\ arg' = Nothing
        /\ res' = Nothing
        /\ raised' = Legacy_init_raises(cls, kw)
        /\ IF Legacy_init_raises(cls, kw) = "none"
           THEN /\ layer' = [class |-> cls, built |-> FALSE,
                             dim_ordering |-> Resolved_dim_ordering(kw)] @@ kw
                /\ pc' = "legacy"
           ELSE UNCHANGED <<layer, pc>>

\* Either no layer yet, or an object of the old API.
InitConfig ==
    \/ Init
    \/ /\ pc = "legacy"
       /\ layer \in LegacyLayers
       /\ args = Nothing
       /\ op = "none"
       /\ arg = Nothing
       /\ raised = "none"
       /\ res = Nothing

NextConfig ==
    \/ Construct(ConfigArgs)
    \/ GetConfig
    \/ FromConfig
    \/ LegacyGetConfig
    \/ LegacyFromConfig
    \/ LegacyConstruct

SpecConfig == InitConfig /\ [][NextConfig]_vars

\* C7: a layer re-created from the dictionary get_config returns has the
\* constructor arguments of the original (n_heads, dmodel, mask_future,
\* dropout, activation, use_bias, the kernel and bias initializers,
\* regularizers and constraints, activity_regularizer), and its get_config
\* returns the same dictionary.
C7_ConfigRoundTrip ==
    (pc = "constructed" /\ op = "from_config") =>
        /\ raised = "none"
        /\ res.clone.n_heads = layer.n_heads
        /\ res.clone.dmodel = layer.dmodel
        /\ res.clone.mask_future = layer.mask_future
        /\ res.clone.dropout = layer.dropout
        /\ res.clone.activation = layer.activation
        /\ res.clone.use_bias = layer.use_bias
        /\ res.clone.kernel_initializer = layer.kernel_initializer
        /\ res.clone.kernel_regularizer = layer.kernel_regularizer
        /\ res.clone.kernel_constraint = layer.kernel_constraint
        /\ res.clone.activity_regularizer = layer.activity_regularizer
        /\ res.clone.bias_initializer = layer.bias_initializer
        /\ res.clone.bias_regularizer = layer.bias_regularizer
        /\ res.clone.bias_constraint = layer.bias_constraint
        /\ res.clone_config = res.config

\* C7, the part that holds: the round trip keeps every argument the
\* dictionary names, and the dictionary of the clone is the original one.
C7_NamedArgumentsKept ==
    (pc = "constructed" /\ op = "from_config") =>
        /\ raised = "none"
        /\ res.clone.n_heads = layer.n_heads
        /\ res.clone.dmodel = layer.dmodel
        /\ res.clone.mask_future = layer.mask_future
        /\ res.clone.dropout = layer.dropout
        /\ res.clone.activation = layer.activation
        /\ res.clone.use_bias = layer.use_bias
        /\ res.clone.kernel_initializer = layer.kernel_initializer
        /\ res.clone.kernel_regularizer = layer.kernel_regularizer
        /\ res.clone.kernel_constraint = layer.kernel_constraint
        /\ res.clone.activity_regularizer = layer.activity_regularizer
        /\ res.clone.name = layer.name
        /\ res.clone_config = res.config

\* C8: every key get_config of a layer of the old API adds to the base
\* configuration is the name of a parameter of the constructor of its class,
\* and the constructor accepts the dictionary.
C8_KeysAreParameters ==
    /\ (pc = "legacy" /\ op = "get_config") =>
            DOMAIN Legacy_config(layer) \subseteq CtorParams(layer.class)
    /\ (pc = "legacy" /\ op = "from_config") => raised = "none"


\* ======================= attention_step of the two soft attention layers
\* SoftAttention.attention_step and SoftMultistepsAttention.attention_step are
\* functions of the built layer (its weights Wa, wa and ca, its activation
\* and sum_weighted_output), of the input x and of the two constants that
\* get_constants builds: the dropout mask B_Wa and the projected context.
\* Units of the alignment model (att_dim).
AttDim == 2
\* A layer is built for 2..MaxSteps input positions, and a context has
\* 2..MaxSteps positions.
MaxSteps == 3
\* The inputs of a step are numbered 0..MaxSoftSeed.
MaxSoftSeed == 2

Shape2(x) == <<Len(x), Len(x[1])>>

\* K.softmax of one row of scores: exp is taken with base 2.
SoftmaxInts(row) ==
    LET low == MinOf({row[k] : k \in 1..Len(row)})
        w == [k \in 1..Len(row) |-> Pow2(row[k] - low)]
    IN  [k \in 1..Len(row) |-> Frac(w[k], SumSeq(w))]

\* K.softmax of a (batch, positions) matrix: over the positions.
K_softmax(x) == [b \in 1..Len(x) |-> SoftmaxInts(x[b])]

\* The built layers attention_step is applied to: the weights are the ones
\* build adds, with the values training gave them (Wa copies input features,
\* wa selects units of the alignment model, ca is zero or not).
SoftLayers ==
    {[class |-> c, att_dim |-> AttDim, sum_weighted_output |-> f,
      activation |-> act, input_steps |-> T, input_dim |-> QueryDim,
      Wa |-> Kernel(QueryDim, AttDim, s),
      wa |-> Bias(AttDim, s),
      ca |-> [t \in 1..T |-> (t * s) % 2],
      built |-> TRUE] :
        c \in {"SoftAttention", "SoftMultistepsAttention"}, f \in BOOLEAN,
        act \in {"fn:linear", "fn:relu"}, T \in 2..MaxSteps, s \in 0..1}

\* constants[0] as get_constants builds it: the list [1.] without dropout, or
\* the list of one (batch, context_dim) matrix whose entries dropout left 0 or
\* scaled to 1 / (1 - 0.5).  The scalar 1 is written with its value in v[1][1].
DropoutConstants ==
    {<<[scalar |-> TRUE, v |-> <<<<1>>>>]>>}
    \cup {<<[scalar |-> FALSE,
             v |-> [b \in 1..NbSamples |-> [c \in 1..cd |->
                        2 * ((b + c + s) % 2)]]]>> :
            cd \in {QueryDim, KeyDim}, s \in 0..1}

\* x * B_Wa[0] for x with three axes: a scalar multiplies every entry; a
\* matrix is aligned with the last two axes of x, and broadcasting fails when
\* they are not of the matrix's shape.
Broadcasts3(x, B) == B.scalar \/ Shape2(B.v) = <<Len(x[1]), Len(x[1][1])>>

Mul3(x, B) ==
    [b \in 1..Len(x) |-> [t \in 1..Len(x[b]) |-> [d \in 1..Len(x[b][t]) |->
        x[b][t][d] * (IF B.scalar THEN B.v[1][1] ELSE B.v[t][d])]]]

\* x * B_Wa[0] for x with two axes.
Broadcasts2(x, B) == B.scalar \/ Shape2(B.v) = Shape2(x)

Mul2(x, B) ==
    [b \in 1..Len(x) |-> [d \in 1..Len(x[b]) |->
        x[b][d] * (IF B.scalar THEN B.v[1][1] ELSE B.v[b][d])]]

\* ----------------------------------------- SoftAttention.attention_step
\* e = K.dot(activation(pctx_[:, None, :] + K.dot(x * B_Wa[0], Wa)), wa) + ca
SoftAttention_scores(self, x, constants) ==
    LET B_Wa == constants[1]
        pctx_ == constants[2]
        p_state_ == K_dot(Mul3(x, B_Wa[1]), self.Wa)
    IN  [b \in 1..Len(x) |-> [t \in 1..Len(x[b]) |->
            SumSeq([m \in 1..Len(self.wa) |->
                Activation(self.activation, pctx_[b][m] + p_state_[b][t][m])
                    * self.wa[m]])
            + self.ca[t]]]

\* Mutant of SoftAttention_alphas: the scores as they are.
SoftAttention_alphas_raw(e) ==
    [b \in 1..Len(e) |-> [t \in 1..Len(e[b]) |-> <<e[b][t], 1>>]]

\* alphas = K.softmax(e.reshape([alphas_shape[0], alphas_shape[1]]))
SoftAttention_alphas(e) == K_softmax(e)

\* Mutant of WeightedOutput: every position takes the weight of the first.
WeightedOutputFirst(x, alphas, sum_weighted_output) ==
    LET ctx_ == [b \in 1..Len(x) |-> [t \in 1..Len(x[b]) |->
                    [d \in 1..Len(x[b][t]) |->
                        FMulInt(alphas[b][1], x[b][t][d])]]]
    IN  IF sum_weighted_output
        THEN [b \in 1..Len(x) |-> [d \in 1..Len(x[b][1]) |->
                FSum([t \in 1..Len(x[b]) |-> ctx_[b][t][d]])]]
        ELSE ctx_

\* ctx_ = x * alphas[:, :, None], summed over axis 1 with sum_weighted_output.
WeightedOutput(x, alphas, sum_weighted_output) ==
    LET ctx_ == [b \in 1..Len(x) |-> [t \in 1..Len(x[b]) |->
                    [d \in 1..Len(x[b][t]) |->
                        FMulInt(alphas[b][t], x[b][t][d])]]]
    IN  IF sum_weighted_output
        THEN [b \in 1..Len(x) |-> [d \in 1..Len(x[b][1]) |->
                FSum([t \in 1..Len(x[b]) |-> ctx_[b][t][d]])]]
        ELSE ctx_

\* What attention_step raises: the error of the product x * B_Wa[0] when
\* the shapes do not broadcast, or nothing.
SoftAttention_step_raises(self, x, constants) ==
    IF Broadcasts3(x, constants[1][1]) THEN "none" ELSE "ValueError"

\* The list [ctx_, alphas] attention_step returns.
SoftAttention_attention_step(self, x, constants) ==
    LET alphas == SoftAttention_alphas(SoftAttention_scores(self, x, constants))
    IN  [ctx_ |-> WeightedOutput(x, alphas, self.sum_weighted_output),
         alphas |-> alphas]

\* SoftAttention.get_output_shape_for
SoftAttention_get_output_shape_for(self, input_shape) ==
    LET dim_x_att == IF self.sum_weighted_output
                     THEN <<input_shape[1][1], input_shape[1][3]>>
                     ELSE input_shape[1]
        dim_alpha_att == <<input_shape[1][1], input_shape[1][2]>>
    IN  <<dim_x_att, dim_alpha_att>>

\* -------------------------------- SoftMultistepsAttention.attention_step
\* The projected context of a sample at each of P positions.
ContextTensor(seed, N, P, A) ==
    [b \in 1..N |-> [p \in 1..P |-> [m \in 1..A |-> (b + p + m + seed) % 2]]]

\* e = K.dot(activation(pctx_ + p_state_[:, None, :]), wa) + ca, for the
\* input x of one time step.
SoftMultistepsAttention_scores(self, x, constants) ==
    LET B_Wa == constants[1]
        pctx_ == constants[2]
        p_state_ == [b \in 1..Len(x) |-> [m \in 1..Len(self.Wa[1]) |->
                        SumSeq([j \in 1..Len(self.Wa) |->
                            Mul2(x, B_Wa[1])[b][j] * self.Wa[j][m]])]]
    IN  [b \in 1..Len(pctx_) |-> [p \in 1..Len(pctx_[b]) |->
            SumSeq([m \in 1..Len(self.wa) |->
                Activation(self.activation, pctx_[b][p][m] + p_state_[b][m])
                    * self.wa[m]])
            + self.ca[p]]]

\* ctx_ = x * alphas[:, :, None] for x with two axes: x is aligned with the
\* last two axes of alphas[:, :, None]; summed over axis 1 with
\* sum_weighted_output.
StepWeightedOutput(x, alphas, sum_weighted_output) ==
    LET ctx_ == [b \in 1..Len(alphas) |-> [p \in 1..Len(alphas[b]) |->
                    [d \in 1..Len(x[p]) |-> FMulInt(alphas[b][p], x[p][d])]]]
    IN  IF sum_weighted_output
        THEN [b \in 1..Len(alphas) |-> [d \in 1..Len(x[1]) |->
                FSum([p \in 1..Len(alphas[b]) |-> ctx_[b][p][d]])]]
        ELSE ctx_

\* What attention_step raises: the error of the first of its three broadcast
\* operations whose shapes do not fit (x * B_Wa[0]; + ca, of input_steps
\* entries, on the scores of the context positions; x * alphas[:, :, None]),
\* or nothing.
SoftMultistepsAttention_step_raises(self, x, constants) ==
    IF /\ Broadcasts2(x, constants[1][1])
       /\ Len(constants[2][1]) = Len(self.ca)
       /\ Len(x) = Len(constants[2][1])
    THEN "none"
    ELSE "ValueError"

\* The pair ctx_, [ctx_, alphas] attention_step returns.
SoftMultistepsAttention_attention_step(self, x, constants) ==
    LET alphas == K_softmax(SoftMultistepsAttention_scores(self, x, constants))
        ctx_ == StepWeightedOutput(x, alphas, self.sum_weighted_output)
    IN  [output |-> ctx_, ctx_ |-> ctx_, alphas |-> alphas]

\* ---------------------------------------------------------------- actions
InitSoft ==
    /\ pc = "soft"
    /\ layer \in SoftLayers
    /\ args = Nothing
    /\ op = "none"
    /\ arg = Nothing
    /\ raised = "none"
    /\ res = Nothing

\* [ctx_, alphas] = layer.attention_step(x, constants) for a SoftAttention.
SoftAttentionStep ==
    /\ pc = "soft"
    /\ op = "none"
    /\ layer.class = "SoftAttention"
    /\ \E xs \in 0..MaxSoftSeed, B_Wa \in DropoutConstants, ps \in 0..1 :
        LET x == InputTensor(xs, NbSamples, layer.input_steps, layer.input_dim)
            pctx == [b \in 1..NbSamples |-> [m \in 1..layer.att_dim |->
                        (b + m + ps) % 2]]
            constants == <<B_Wa, pctx>>
        IN  /\ op' = "attention_step"
            /\ arg' = [x |-> x, constants |-> constants]
            /\ raised' = SoftAttention_step_raises(layer, x, constants)
            /\ res' = IF raised' = "none"
                      THEN SoftAttention_attention_step(layer, x, constants)
                      ELSE Nothing
            /\ UNCHANGED <<pc, layer, args>>

\* ctx_, [ctx_, alphas] = layer.attention_step(x, constants) for one time
\* step t of the input of a SoftMultistepsAttention and a context of P
\* positions.
SoftMultistepsAttentionStep ==
    /\ pc = "soft"
    /\ op = "none"
    /\ layer.class = "SoftMultistepsAttention"
    /\ \E xs \in 0..MaxSoftSeed, t \in 1..layer.input_steps,
          B_Wa \in DropoutConstants, P \in 2..MaxSteps, ps \in 0..1 :
        LET state_below == InputTensor(xs, NbSamples, layer.input_steps,
                                       layer.input_dim)
            x == [b \in 1..NbSamples |-> state_below[b][t]]
            pctx == ContextTensor(ps, NbSamples, P, layer.att_dim)
            constants == <<B_Wa, pctx>>
        IN  /\ op' = "attention_step"
            /\ arg' = [x |-> x, constants |-> constants]
            /\ raised' = SoftMultistepsAttention_step_raises(layer, x, constants)
            /\ res' = IF raised' = "none"
                      THEN SoftMultistepsAttention_attention_step(layer, x,
                                                                  constants)
                      ELSE Nothing
            /\ UNCHANGED <<pc, layer, args>>

\* layer.get_output_shape_for(input_shape) for a SoftAttention.
SoftAttentionOutputShape ==
    /\ pc = "soft"
    /\ op = "none"
    /\ layer.class = "SoftAttention"
    /\ \E cd \in {QueryDim, KeyDim} :
        LET input_shape == <<<<NbSamples, layer.input_steps, layer.input_dim>>,
                             <<NbSamples, cd>>>>
        IN  /\ op' = "get_output_shape_for"
            /\ arg' = input_shape
            /\ raised' = "none"
            /\ res' = SoftAttention_get_output_shape_for(layer, input_shape)
            /\ UNCHANGED <<pc, layer, args>>

NextSoft ==
    \/ SoftAttentionStep
    \/ SoftMultistepsAttentionStep
    \/ SoftAttentionOutputShape

SpecSoft == InitSoft /\ [][NextSoft]_vars

\* A state attention_step has returned to.
Stepped == pc = "soft" /\ op = "attention_step" /\ raised = "none"

\* C9: the attention weights that attention_step of SoftAttention and of
\* SoftMultistepsAttention returns are, for every sample, one weight per
\* position, each of them non-negative, and their sum is 1.
C9_AlphasNormalised ==
    Stepped =>
        /\ Len(res.alphas) = NbSamples
        /\ \A b \in 1..NbSamples :
            /\ Len(res.alphas[b]) =
                    IF layer.class = "SoftAttention"
                    THEN Len(arg.x[b]) ELSE Len(arg.constants[2][b])
            /\ \A i \in 1..Len(res.alphas[b]) :
                    res.alphas[b][i][1] >= 0 /\ res.alphas[b][i][2] > 0
            /\ FSum(res.alphas[b]) = <<1, 1>>

\* C9 witness: a step of SoftMultistepsAttention has returned weights that
\* are not the same at all the positions of a sample.
C9_Witness ==
    /\ Stepped /\ layer.class = "SoftMultistepsAttention"
    /\ \E b \in 1..NbSamples : \E i, j \in 1..Len(res.alphas[b]) :
            res.alphas[b][i] # res.alphas[b][j]

\* C10: attention_step of SoftAttention returns, with sum_weighted_output, the
\* sum over the positions i of alphas_i * x_i, of shape (batch, input_dim),
\* and without it the products alphas_i * x_i, of the shape of x; the shapes
\* of the two tensors it returns are the ones get_output_shape_for gives.
C10_WeightedSum ==
    (Stepped /\ layer.class = "SoftAttention") =>
        LET x == arg.x
            N == Len(x)
            T == Len(x[1])
            D == Len(x[1][1])
            shapes == SoftAttention_get_output_shape_for(layer,
                            <<Shape3(x), Shape2(arg.constants[2])>>)
        IN  /\ Shape2(res.alphas) = <<N, T>>
            /\ shapes[2] = <<N, T>>
            /\ IF layer.sum_weighted_output
               THEN /\ shapes[1] = <<N, D>>
                    /\ Shape2(res.ctx_) = <<N, D>>
                    /\ \A b \in 1..N, d \in 1..D :
                        res.ctx_[b][d] =
                            FSum([i \in 1..T |->
                                Frac(res.alphas[b][i][1] * x[b][i][d],
                                     res.alphas[b][i][2])])
               ELSE /\ shapes[1] = <<N, T, D>>
                    /\ Shape3(res.ctx_) = <<N, T, D>>
                    /\ \A b \in 1..N, i \in 1..T, d \in 1..D :
                        res.ctx_[b][i][d] =
                            Frac(res.alphas[b][i][1] * x[b][i][d],
                                 res.alphas[b][i][2])

\* C10 witness: a step with sum_weighted_output has returned a sum to which
\* two positions with different weights contribute.
C10_Witness ==
    /\ Stepped /\ layer.class = "SoftAttention" /\ layer.sum_weighted_output
    /\ \E b \in 1..NbSamples, d \in 1..layer.input_dim :
        \E i, j \in 1..layer.input_steps :
            /\ i # j
            /\ arg.x[b][i][d] # 0 /\ arg.x[b][j][d] # 0
            /\ res.alphas[b][i] # res.alphas[b][j]


\* ============================================= claims about build and bias
\* A state build has just acted in.
Built == op = "build"

BiasTerm(bias, m) == IF layer.use_bias THEN bias[m] ELSE 0

\* activation(K.dot(x, kernel) + the bias term) at (b, t, m).
Projected(x, kernel, bias, b, t, m) ==
    Activation(layer.activation,
               SumSeq([j \in 1..Len(kernel) |-> x[b][t][j] * kernel[j][m]])
               + BiasTerm(bias, m))

\* C12: after build the four biases are weights (vectors of dmodel entries)
\* when use_bias is set and None when it is not; call adds bias_q, bias_k and
\* bias_v to the three projections and bias_o to the output projection when
\* use_bias is set, and adds nothing when it is not.
C12_BiasIffUseBias ==
    /\ (op \in {"build", "call"} /\ raised = "none") =>
        /\ layer.has_bias = layer.use_bias
        /\ layer.use_bias =>
            \A w \in {layer.bias_q, layer.bias_k, layer.bias_v, layer.bias_o} :
                Len(w) = layer.dmodel
        /\ ~layer.use_bias =>
            \A w \in {layer.bias_q, layer.bias_k, layer.bias_v, layer.bias_o} :
                w = <<>>
    /\ Called =>
        /\ \A b \in 1..NbSamples, m \in 1..layer.dmodel :
            /\ \A t \in 1..QuerySteps :
                res.queries[b][t][m] =
                    Projected(res.query, layer.linear_q, layer.bias_q, b, t, m)
            /\ \A t \in 1..KeySteps :
                /\ res.keys[b][t][m] =
                    Projected(res.key, layer.linear_k, layer.bias_k, b, t, m)
                /\ res.values[b][t][m] =
                    Projected(res.key, layer.linear_v, layer.bias_v, b, t, m)
            /\ \A t \in 1..QuerySteps :
                res.output[b][t][m] =
                    FActivation(layer.activation,
                        FAdd(FSum([j \in 1..layer.dmodel |->
                                FMulInt(res.attended_heads[b][t][j],
                                        layer.linear_o[j][m])]),
                             <<BiasTerm(layer.bias_o, m), 1>>))

\* C12 witness: a call of a layer with bias in which the bias changes an entry
\* of the projected queries and the layer without bias would give another
\* output.
C12_Witness ==
    /\ Called /\ layer.use_bias /\ layer.n_heads = 2
    /\ \E b \in 1..NbSamples, t \in 1..QuerySteps, m \in 1..layer.dmodel :
        /\ layer.bias_q[m] # 0
        /\ res.queries[b][t][m] #
            Activation(layer.activation,
                SumSeq([j \in 1..QueryDim |->
                    res.query[b][t][j] * layer.linear_q[j][m]]))
    /\ \E b \in 1..NbSamples, t \in 1..QuerySteps, m \in 1..layer.dmodel :
        /\ layer.bias_o[m] # 0
        /\ res.output[b][t][m] #
            FActivation(layer.activation,
                FSum([j \in 1..layer.dmodel |->
                    FMulInt(res.attended_heads[b][t][j], layer.linear_o[j][m])]))


\* ====================================== shapes of ConvAtt and ConvCoAtt
\* The claims about the two convolutional layers are about the shapes of the
\* tensors their methods produce: here a tensor is its shape, a sequence of
\* dimensions, and an operation that cannot be applied to its operands'
\* shapes gives NoShape.  The sizes of the channels, rows, embeddings and
\* glimpses range over 2..MaxConvDim (0 glimpses too), the columns are
\* ConvCols, and a question has 1..MaxWords words.
MaxConvDim == 3
ConvCols == 4
MaxWords == 2

ConvDims == 2..MaxConvDim

NoShape == <<>>

\* The shape with its axis k removed: x.sum(axis=k-1).
DropAxis(s, k) == SubSeq(s, 1, k - 1) \o SubSeq(s, k + 1, Len(s))

\* The shape with a broadcastable axis inserted at position k: x[:, None].
InsertAxis(s, k) == SubSeq(s, 1, k - 1) \o <<1>> \o SubSeq(s, k, Len(s))

\* The shape of a * b, where the axes of size 1 of b are broadcastable: the
\* other axes have to be those of a.
BroadcastShape(a, b) ==
    IF a # NoShape /\ b # NoShape /\ Len(a) = Len(b)
       /\ \A i \in 1..Len(a) : b[i] = a[i] \/ b[i] = 1
    THEN a
    ELSE NoShape

\* K.permute_dimensions(x, pattern), the pattern being 0-based.
PermuteShape(s, pattern) ==
    IF s = NoShape THEN NoShape
    ELSE [i \in 1..Len(pattern) |-> s[pattern[i] + 1]]

RECURSIVE ProdSeq(_)
ProdSeq(s) == IF s = <<>> THEN 1 ELSE Head(s) * ProdSeq(Tail(s))

\* K.reshape(x, (shp[0], shp[1], shp[2], -1))
ReshapeKeep3(s) ==
    IF s = NoShape THEN NoShape
    ELSE <<s[1], s[2], s[3], ProdSeq(SubSeq(s, 4, Len(s)))>>

\* K.conv2d with a 1 x 1 filter of n output channels, stride 1: the channels
\* axis (the second for 'th', the last for 'tf') becomes n.
Conv2dShape(s, n, dim_ordering) ==
    IF s = NoShape THEN NoShape
    ELSE IF dim_ordering = "th" THEN [s EXCEPT ![2] = n]
    ELSE [s EXCEPT ![4] = n]

\* K.repeatRdim(x, n, axis): a new axis of size n at position axis (0-based).
RepeatRdimShape(s, n, axis) ==
    SubSeq(s, 1, axis) \o <<n>> \o SubSeq(s, axis + 1, Len(s))

\* K.rnn(step, inputs, initial_states, constants): the shapes of last_output
\* and of outputs for the shape of the output of one step, which is also the
\* new state and has to have the shape of the initial state.
K_rnn(step_shape, initial_state, samples, steps) ==
    IF step_shape = NoShape \/ step_shape # initial_state
    THEN [last_output |-> NoShape, outputs |-> NoShape]
    ELSE [last_output |-> step_shape,
          outputs |-> <<samples, steps>> \o Tail(step_shape)]

\* K.rnn: the list the step function is given as its second argument, the
\* states followed by the constants.
K_rnn_step_args(states, constants) == states \o constants

\* Mutant of Conv_step_context: the context is the recurrent state.
Conv_step_context_state(states) == states[1]

\* context = states[1], the first statement of ConvAtt.step and of
\* ConvCoAtt.step.
Conv_step_context(states) == states[2]

\* What the tensor a step returns is computed from, each tensor being written
\* as the set of the inputs of call it is computed from: in both classes
\* every statement of step takes its operands among x, context, the weights
\* and what the statements before it computed.
Conv_step_from(x, states) == Conv_step_context(states) \cup x

\* K.rnn over the time steps t..steps: the outputs of the steps, the state
\* of a step being what the step before it returned.
RECURSIVE Conv_rnn_from(_, _, _)
Conv_rnn_from(t, steps, states) ==
    IF t > steps THEN <<>>
    ELSE LET output == Conv_step_from({<<"x", t>>},
                           K_rnn_step_args(states, <<{<<"image", 0>>}>>))
         IN  <<output>> \o Conv_rnn_from(t + 1, steps, <<output>>)

\* get_initial_states: x[0] summed over axis 1, the axis put back and
\* repeated nb_embedding times.
Conv_get_initial_states(self, x) == [x[1] EXCEPT ![2] = self.nb_embedding]

\* ------------------------------------------------------------- ConvAtt
\* What ConvAtt.build sets from the input shapes.
ConvAtt_build(self, input_shape) ==
    LET img_size == IF self.dim_ordering = "th" THEN input_shape[1][2]
                                                ELSE input_shape[1][4]
        qst_size == input_shape[2][3]
    IN  [self EXCEPT
           !.num_words = input_shape[2][2],
           !.V_shape = <<qst_size, self.nb_embedding>>,
           !.W_shape = IF self.dim_ordering = "th"
                       THEN <<self.nb_embedding, img_size, 1, 1>>
                       ELSE <<1, 1, img_size, self.nb_embedding>>,
           !.built = TRUE]

\* ConvAtt.step on the shapes of x (samples, nb_embedding) and of the context
\* states[1].
ConvAtt_step(self, x, context) ==
    LET activation_t == BroadcastShape(context, x \o <<1, 1>>)
        e_t == IF self.nb_glimpses > 0
               THEN Conv2dShape(activation_t, self.nb_glimpses,
                                self.dim_ordering)
               ELSE activation_t
        alphas == IF e_t = NoShape THEN NoShape ELSE DropAxis(e_t, 2)
    IN  IF alphas = NoShape THEN NoShape
        ELSE BroadcastShape(context, InsertAxis(alphas, 2))

\* What call returns of the two results of K.rnn: outputs, with the time
\* steps joined when concat_timesteps is set, or last_output.
ConvOutputs(self, rnn) ==
    IF self.return_states
    THEN IF self.concat_timesteps
         THEN PermuteShape(ReshapeKeep3(
                PermuteShape(rnn.outputs, <<0, 3, 4, 2, 1>>)), <<0, 3, 1, 2>>)
         ELSE rnn.outputs
    ELSE rnn.last_output

\* The shape of what ConvAtt.call returns for inputs of the shapes x.
ConvAtt_call(self, x) ==
    LET preprocessed_img == Conv2dShape(x[1], self.nb_embedding,
                                        self.dim_ordering)
        preprocessed_input == <<x[2][1], x[2][2], self.V_shape[2]>>
        initial_state == Conv_get_initial_states(self, x)
        step == ConvAtt_step(self, <<x[2][1], self.V_shape[2]>>,
                    Conv_step_context(K_rnn_step_args(<<initial_state>>,
                                                      <<preprocessed_img>>)))
    IN  ConvOutputs(self, K_rnn(step, initial_state,
                                preprocessed_input[1], self.num_words))

\* ConvAtt.get_output_shape_for
ConvAtt_get_output_shape_for(self, input_shape) ==
    LET th == self.dim_ordering = "th"
        rows == IF th THEN input_shape[1][3] ELSE input_shape[1][2]
        cols == IF th THEN input_shape[1][4] ELSE input_shape[1][3]
        samples == input_shape[1][1]
    IN  IF self.return_states
        THEN IF self.concat_timesteps
             THEN IF th
                  THEN <<samples, self.nb_embedding * self.num_words, rows, cols>>
                  ELSE <<samples, rows, cols, self.nb_embedding * self.num_words>>
             ELSE IF th
                  THEN <<samples, self.num_words, self.nb_embedding, rows, cols>>
                  ELSE <<samples, self.num_words, rows, cols, self.nb_embedding>>
        ELSE IF th THEN <<samples, self.nb_embedding, rows, cols>>
                   ELSE <<samples, rows, cols, self.nb_embedding>>


\* ----------------------------------------------------------- ConvCoAtt
\* K.concatenate([a, b], axis) of two shapes (axis 0-based): the other axes
\* have to agree.
ConcatShape(a, b, axis) ==
    IF Len(a) = Len(b) /\ \A i \in 1..Len(a) : i = axis + 1 \/ a[i] = b[i]
    THEN [a EXCEPT ![axis + 1] = a[axis + 1] + b[axis + 1]]
    ELSE NoShape

\* What ConvCoAtt.build sets from the input shapes.
ConvCoAtt_build(self, input_shape) ==
    LET th == self.dim_ordering = "th"
        img_size == IF th THEN input_shape[1][2] ELSE input_shape[1][4]
        qst_size == input_shape[2][3]
    IN  [self EXCEPT
           !.num_words = input_shape[2][2],
           !.num_row = IF th THEN input_shape[1][3] ELSE input_shape[1][2],
           !.num_col = IF th THEN input_shape[1][4] ELSE input_shape[1][3],
           !.W_shape = IF th
                       THEN <<self.nb_embedding, img_size + qst_size, 1, 1>>
                       ELSE <<1, 1, img_size + qst_size, self.nb_embedding>>,
           !.built = TRUE]

\* ConvCoAtt.step on the shapes of x (samples, features) and of the context
\* states[1].
ConvCoAtt_step(self, x, context) ==
    LET th == self.dim_ordering = "th"
        repeated == IF th
                    THEN RepeatRdimShape(RepeatRdimShape(x, self.num_row, 2),
                                         self.num_col, 3)
                    ELSE RepeatRdimShape(RepeatRdimShape(x, self.num_row, 1),
                                         self.num_col, 2)
        word_ctx == Conv2dShape(
                        ConcatShape(repeated, context, IF th THEN 1 ELSE 3),
                        self.nb_embedding, self.dim_ordering)
        e_t == IF self.nb_glimpses > 0
               THEN Conv2dShape(word_ctx, self.nb_glimpses, self.dim_ordering)
               ELSE word_ctx
        alphas == IF e_t = NoShape THEN NoShape ELSE DropAxis(e_t, 2)
    IN  IF alphas = NoShape THEN NoShape
        ELSE BroadcastShape(word_ctx, InsertAxis(alphas, 2))

\* The shape of what ConvCoAtt.call returns for inputs of the shapes x.
ConvCoAtt_call(self, x) ==
    LET initial_state == Conv_get_initial_states(self, x)
        step == ConvCoAtt_step(self, <<x[2][1], x[2][3]>>,
                    Conv_step_context(K_rnn_step_args(<<initial_state>>,
                                                      <<x[1]>>)))
    IN  ConvOutputs(self, K_rnn(step, initial_state,
                                x[2][1], self.num_words))

\* ConvCoAtt.get_output_shape_for
ConvCoAtt_get_output_shape_for(self, input_shape) ==
    LET th == self.dim_ordering = "th"
        rows == IF th THEN input_shape[1][3] ELSE input_shape[1][2]
        cols == IF th THEN input_shape[1][4] ELSE input_shape[1][3]
        samples == input_shape[1][1]
        maps == IF self.nb_glimpses > 0 THEN self.nb_glimpses
                                        ELSE self.nb_embedding
    IN  IF self.return_states
        THEN IF self.concat_timesteps
             THEN IF th THEN <<samples, maps * self.num_words, rows, cols>>
                        ELSE <<samples, rows, cols, maps * self.num_words>>
             ELSE IF th THEN <<samples, self.num_words, maps, rows, cols>>
                        ELSE <<samples, self.num_words, rows, cols, maps>>
        ELSE IF th THEN <<samples, maps, rows, cols>>
                   ELSE <<samples, rows, cols, maps>>

\* --------------------------------------------------- objects and actions
\* The attributes of a layer that is not built yet.
ConvAttrs ==
    {[class |-> c, dim_ordering |-> o, nb_embedding |-> e, nb_glimpses |-> g,
      concat_timesteps |-> ct, return_states |-> rs, bias |-> TRUE,
      num_words |-> 0, num_row |-> 0, num_col |-> 0,
      V_shape |-> NoShape, W_shape |-> NoShape, built |-> FALSE] :
        c \in {"ConvAtt", "ConvCoAtt"}, o \in {"th", "tf"}, e \in ConvDims,
        g \in {0} \cup ConvDims, ct \in BOOLEAN, rs \in BOOLEAN}

\* The shapes of the two inputs: an image with its channels where
\* dim_ordering puts them, and a question of words of QueryDim features.
ConvInputShapes(dim_ordering) ==
    {<<IF dim_ordering = "th" THEN <<NbSamples, ch, rows, ConvCols>>
                              ELSE <<NbSamples, rows, ConvCols, ch>>,
       <<NbSamples, words, QueryDim>>>> :
        ch \in ConvDims, rows \in ConvDims, words \in 1..MaxWords}

Conv_build(self, input_shape) ==
    IF self.class = "ConvAtt" THEN ConvAtt_build(self, input_shape)
                              ELSE ConvCoAtt_build(self, input_shape)

\* A layer that build has built for input shapes.
InitConv ==
    /\ pc = "conv"
    /\ \E a \in ConvAttrs : \E input_shape \in ConvInputShapes(a.dim_ordering) :
        /\ layer = Conv_build(a, input_shape)
        /\ arg = input_shape
    /\ args = Nothing
    /\ op = "build"
    /\ raised = "none"
    /\ res = Nothing

\* The outcome of a call, given the shape it produces: the shape, and for
\* each time step what its output was computed from.
ConvCalled(shape) ==
    /\ op' = "call"
    /\ res' = [shape |-> shape,
               from |-> IF shape = NoShape THEN <<>>
                        ELSE Conv_rnn_from(1, layer.num_words,
                                           <<{<<"initial_state", 0>>}>>)]
    /\ raised' = IF shape = NoShape THEN "ValueError" ELSE "none"
    /\ UNCHANGED <<pc, layer, args, arg>>

\* layer.call(x) for a ConvAtt and inputs of the shapes it was built for.
ConvAttCall ==
    /\ pc = "conv" /\ op = "build" /\ layer.class = "ConvAtt"
    /\ ConvCalled(ConvAtt_call(layer, arg))

\* layer.call(x) for a ConvCoAtt and inputs of the shapes it was built for.
ConvCoAttCall ==
    /\ pc = "conv" /\ op = "build" /\ layer.class = "ConvCoAtt"
    /\ ConvCalled(ConvCoAtt_call(layer, arg))

\* layer.get_output_shape_for(input_shape) for a ConvAtt.
ConvAttOutputShape ==
    /\ pc = "conv" /\ op = "build" /\ layer.class = "ConvAtt"
    /\ op' = "get_output_shape_for"
    /\ res' = ConvAtt_get_output_shape_for(layer, arg)
    /\ raised' = "none"
    /\ UNCHANGED <<pc, layer, args, arg>>

\* layer.get_output_shape_for(input_shape) for a ConvCoAtt.
ConvCoAttOutputShape ==
    /\ pc = "conv" /\ op = "build" /\ layer.class = "ConvCoAtt"
    /\ op' = "get_output_shape_for"
    /\ res' = ConvCoAtt_get_output_shape_for(layer, arg)
    /\ raised' = "none"
    /\ UNCHANGED <<pc, layer, args, arg>>

NextConv ==
    \/ ConvAttCall
    \/ ConvCoAttCall
    \/ ConvAttOutputShape
    \/ ConvCoAttOutputShape

SpecConv == InitConv /\ [][NextConv]_vars

\* A state call of a convolutional layer has returned to.
ConvReturned(class) ==
    pc = "conv" /\ op = "call" /\ raised = "none" /\ layer.class = class

\* C13: whatever dim_ordering, return_states and concat_timesteps are, the
\* tensor ConvAtt.call returns has the shape get_output_shape_for gives for
\* the shapes of the inputs.
C13_ConvAttShape ==
    ConvReturned("ConvAtt") => res.shape = ConvAtt_get_output_shape_for(layer, arg)

\* C13, the part that holds: the same with dim_ordering 'th', and with 'tf'
\* unless return_states and concat_timesteps are both set.
C13_ConvAttShapeTh ==
    (/\ ConvReturned("ConvAtt")
     /\ \/ layer.dim_ordering = "th"
        \/ ~(layer.return_states /\ layer.concat_timesteps)
        \/ layer.num_words = 1)
        => res.shape = ConvAtt_get_output_shape_for(layer, arg)

\* C14: for a ConvCoAtt with nb_glimpses > 0 and dim_ordering 'th' the tensor
\* call returns has the shape get_output_shape_for gives, with nb_glimpses
\* channels per time step, which is the number of channels of the tensor
\* step produces.
C14_ConvCoAttGlimpses ==
    (/\ ConvReturned("ConvCoAtt")
     /\ layer.nb_glimpses > 0 /\ layer.dim_ordering = "th")
        => /\ res.shape = ConvCoAtt_get_output_shape_for(layer, arg)
           /\ ConvCoAtt_step(layer, <<arg[2][1], arg[2][3]>>, arg[1])[2]
                = layer.nb_glimpses
           /\ ~layer.return_states =>
                res.shape = <<NbSamples, layer.nb_glimpses, arg[1][3], arg[1][4]>>
           /\ (layer.return_states /\ layer.concat_timesteps) =>
                res.shape = <<NbSamples, layer.nb_glimpses * layer.num_words,
                        arg[1][3], arg[1][4]>>

\* C14, what the code does: the tensor step produces, and so every time step
\* of the output, has nb_embedding channels.
C14_ConvCoAttEmbedding ==
    (/\ ConvReturned("ConvCoAtt") /\ layer.dim_ordering = "th")
        => /\ ConvCoAtt_step(layer, <<arg[2][1], arg[2][3]>>, arg[1])[2]
                = layer.nb_embedding
           /\ ~layer.return_states =>
                res.shape = <<NbSamples, layer.nb_embedding, arg[1][3], arg[1][4]>>
           /\ (layer.return_states /\ layer.concat_timesteps) =>
                res.shape = <<NbSamples, layer.nb_embedding * layer.num_words,
                        arg[1][3], arg[1][4]>>


\* ====================================================== AttentionComplex
\* K.tanh on an integer: the function is odd and increasing, takes its values
\* in (-1, 1) and is 0 at 0; z / (1 + |z|) stands for it.
K_tanh(z) == Frac(z, 1 + Abs(z))

\* What AttentionComplex.build adds to the layer for an input shape: w of
\* shape (input_dim, nb_attention), W of shape (input_dim, input_dim) and b of
\* shape (input_dim,), with the values training gave them.
AttentionComplex_build(self, input_shape, shift) ==
    LET input_dim == input_shape[3]
    IN  [self EXCEPT
           !.input_spec = input_shape,
           !.input_dim = input_dim,
           !.w = Kernel(input_dim, self.nb_attention, shift),
           !.W = Kernel(input_dim, input_dim, shift),
           !.b = Bias(input_dim, shift + 1),
           !.built = TRUE]

\* The built layers call is applied to (dropout rates in percent).
ComplexLayers ==
    {AttentionComplex_build(
        [class |-> "AttentionComplex", nb_attention |-> n,
         dropout_w |-> dw, dropout_W |-> dW, dropout_Wa |-> 0,
         input_spec |-> <<>>, input_dim |-> 0,
         w |-> <<>>, W |-> <<>>, b |-> <<>>, built |-> FALSE],
        <<NbSamples, QuerySteps, QueryDim>>, s) :
        n \in 1..MaxHeads, dw \in {0, 50}, dW \in {0, 50}, s \in 0..1}

\* K.sigmoid on an integer: the function is increasing, takes its values in
\* (0, 1) and is 1/2 at 0; (1 + z / (1 + |z|)) / 2 stands for it.
K_sigmoid(z) == Frac(1 + Abs(z) + z, 2 * (1 + Abs(z)))

\* ================================== call of the layers of the old API
\* `not d` for a dimension d of a shape: d is None or 0.
Undefined(d) == d = NoneDim \/ d = 0

\* 0 < rate < 1, for a rate in percent.
DropoutActive(rate) == 0 < rate /\ rate < 100

\* An entry of K.in_train_phase(K.dropout(ones, rate), ones): 1 in the test
\* phase, and in the training phase 0 or 1 / (1 - rate).
DropValue(rate, training, k) ==
    IF training THEN (IF k % 2 = 0 THEN 0 ELSE 100 \div (100 - rate)) ELSE 1

\* What call returns or raises: the exception, the steps of call that were
\* completed, the constants, what the steps of K.rnn read, and the value.
Outcome(exc, done, constants, reads, out) ==
    [raised |-> exc, done |-> done, constants |-> constants,
     reads |-> reads, out |-> out]

\* Mutant of Call_shape_raises: the assertion accepts more than 3 dimensions.
Call_shape_raises_atleast(self, backend) ==
    IF Len(self.input_spec) < 3 THEN "AssertionError"
    ELSE IF backend = "tensorflow" /\ Undefined(self.input_spec[2])
    THEN "Exception"
    ELSE "none"

\* The checks call of each of the four classes begins with: the assertion on
\* the recorded input shape, then, with the tensorflow backend, the check of
\* its dimension 1.
Call_shape_raises(self, backend) ==
    IF Len(self.input_spec) # 3 THEN "AssertionError"
    ELSE IF backend = "tensorflow" /\ Undefined(self.input_spec[2])
    THEN "Exception"
    ELSE "none"

\* ------------------------------------------------------------ Attention
\* Attention.get_constants: with dropout it indexes x, a tensor of three
\* axes, with four indices (x[:, :, 0, 0]).
Attention_get_constants_raises(self) ==
    IF DropoutActive(self.dropout_Wa) THEN "IndexError" ELSE "none"

\* Attention.get_constants without dropout: [[1.]].
Attention_get_constants(self, x) == <<<<1>>>>

\* Attention.attention_step:
\*   beta = K.sigmoid(K.dot(x * B_Wa, self.Wa) + self.ba)
Attention_attention_step(self, x, constants) ==
    LET B_Wa == constants[1]
    IN  [b \in 1..Len(x) |-> [t \in 1..Len(x[b]) |->
            [a \in 1..self.nb_attention |->
                K_sigmoid(SumSeq([j \in 1..self.input_dim |->
                              x[b][t][j] * B_Wa[1] * self.Wa[j][a]])
                          + self.ba[a])]]]

\* Attention.call
Attention_call(self, x, backend) ==
    IF Call_shape_raises(self, backend) # "none"
    THEN Outcome(Call_shape_raises(self, backend), <<>>, <<>>, <<>>, Nothing)
    ELSE IF Attention_get_constants_raises(self) # "none"
    THEN Outcome(Attention_get_constants_raises(self), <<>>, <<>>, <<>>,
                 Nothing)
    ELSE LET constants == Attention_get_constants(self, x)
         IN  Outcome("none", <<"get_constants", "attention_step">>,
                     constants, <<>>,
                     Attention_attention_step(self, x, constants))

\* ----------------------------------------------------- AttentionComplex
\* AttentionComplex.get_constants: with a dropout it indexes x, a tensor of
\* three axes, with four indices (x[:, :, 0, 0]).
AttentionComplex_get_constants_raises(self) ==
    IF \/ DropoutActive(self.dropout_w)
       \/ DropoutActive(self.dropout_W)
       \/ DropoutActive(self.dropout_Wa)
    THEN "IndexError"
    ELSE "none"

\* AttentionComplex.get_constants without dropout: [1., 1., 1.].
AttentionComplex_get_constants(self, x) == <<1, 1, 1>>

\* AttentionComplex.attention_step:
\*   e = K.dot(K.tanh(K.dot(x * B_W, self.W) + self.b) * B_w, self.w)
\*   return e
AttentionComplex_attention_step(self, x, constants) ==
    LET B_w == constants[1]
        B_W == constants[2]
        h == K_dot([b \in 1..Len(x) |-> [t \in 1..Len(x[b]) |->
                     [d \in 1..Len(x[b][t]) |-> x[b][t][d] * B_W]]],
                   self.W)
    IN  [b \in 1..Len(x) |-> [t \in 1..Len(x[b]) |->
            [a \in 1..self.nb_attention |->
                FSum([j \in 1..self.input_dim |->
                    FMulInt(K_tanh(h[b][t][j] + self.b[j]),
                            B_w * self.w[j][a])])]]]

\* AttentionComplex.call
AttentionComplex_call(self, x, backend) ==
    IF Call_shape_raises(self, backend) # "none"
    THEN Outcome(Call_shape_raises(self, backend), <<>>, <<>>, <<>>, Nothing)
    ELSE IF AttentionComplex_get_constants_raises(self) # "none"
    THEN Outcome(AttentionComplex_get_constants_raises(self), <<>>, <<>>,
                 <<>>, Nothing)
    ELSE LET constants == AttentionComplex_get_constants(self, x)
         IN  Outcome("none", <<"get_constants", "attention_step">>,
                     constants, <<>>,
                     AttentionComplex_attention_step(self, x, constants))

\* AttentionComplex.get_output_shape_for
AttentionComplex_get_output_shape_for(self, input_shape) ==
    SubSeq(input_shape, 1, 2) \o <<self.nb_attention>>

\* -------------------------------------------------------- SoftAttention
\* constants[0] of get_constants of SoftAttention and SoftMultistepsAttention:
\* [1.], or with dropout the list of one (batch, context_dim) matrix.
Soft_B_Wa(self, x, training, seed) ==
    IF DropoutActive(self.dropout_Wa)
    THEN <<[scalar |-> FALSE,
            v |-> [b \in 1..Len(x) |-> [c \in 1..self.context_dim |->
                     DropValue(self.dropout_Wa, training, b + c + seed)]]]>>
    ELSE <<[scalar |-> TRUE, v |-> <<<<1>>>>]>>

\* SoftAttention.get_constants: with dropout_Ua it indexes the context, a
\* tensor of two axes, with three indices (self.context[:, :, 0]).
SoftAttention_get_constants_raises(self) ==
    IF DropoutActive(self.dropout_Ua) THEN "IndexError" ELSE "none"

\* SoftAttention.get_constants: [B_Wa, pctx] with
\* pctx = K.dot(self.context, self.Ua) + self.ba.
SoftAttention_get_constants(self, x, training, seed) ==
    <<Soft_B_Wa(self, x, training, seed),
      [b \in 1..Len(self.context) |-> [m \in 1..self.att_dim |->
          SumSeq([c \in 1..self.context_dim |->
                     self.context[b][c] * self.Ua[c][m]])
          + self.ba[m]]]>>

\* SoftAttention.call for x = [state_below, context], after self.context was
\* assigned: the checks of the shape, mask[1] (mask None is written <<>>),
\* get_constants and attention_step.
SoftAttention_call(self, x, mask, backend, training, seed) ==
    IF Call_shape_raises(self, backend) # "none"
    THEN Outcome(Call_shape_raises(self, backend), <<>>, <<>>, <<>>, Nothing)
    ELSE IF mask = <<>>
    THEN Outcome("TypeError", <<>>, <<>>, <<>>, Nothing)
    ELSE IF SoftAttention_get_constants_raises(self) # "none"
    THEN Outcome(SoftAttention_get_constants_raises(self), <<>>, <<>>, <<>>,
                 Nothing)
    ELSE LET constants == SoftAttention_get_constants(self, x[1], training,
                                                      seed)
             step == SoftAttention_step_raises(self, x[1], constants)
         IN  IF step # "none"
             THEN Outcome(step, <<"get_constants">>, constants, <<>>, Nothing)
             ELSE Outcome("none", <<"get_constants", "attention_step">>,
                          constants, <<>>,
                          SoftAttention_attention_step(self, x[1], constants))

\* ---------------------------------------------- SoftMultistepsAttention
\* SoftMultistepsAttention.get_constants: [B_Wa, pctx] with
\* pctx = K.dot(self.context * B_Ua[0], self.Ua) + self.ba, B_Ua being ones
\* without dropout.
SoftMultistepsAttention_get_constants(self, x, training, seed) ==
    <<Soft_B_Wa(self, x, training, seed),
      [b \in 1..Len(self.context) |-> [p \in 1..Len(self.context[b]) |->
          [m \in 1..self.att_dim |->
              SumSeq([c \in 1..self.context_dim |->
                  self.context[b][p][c]
                    * (IF DropoutActive(self.dropout_Ua)
                       THEN DropValue(self.dropout_Ua, training,
                                      b + p + c + seed)
                       ELSE 1)
                    * self.Ua[c][m]])
              + self.ba[m]]]]>>

\* An initial state that is None.
NoState == <<>>

\* K.rnn(self.attention_step, x, [None, None], constants=constants) from time
\* step t on: attention_step takes B_Wa and pctx_ at the indices 0 and 1 of
\* the list it is given, and B_Wa[0] of None is a TypeError; the states of
\* the next step are what the step returned.
RECURSIVE SoftMultistepsAttention_rnn(_, _, _, _, _, _)
SoftMultistepsAttention_rnn(self, x, t, states, constants, reads) ==
    LET given == K_rnn_step_args(states, constants)
        read == [B_Wa |-> given[1], pctx_ |-> given[2]]
        x_t == [b \in 1..Len(x) |-> x[b][t]]
        used == <<read.B_Wa, read.pctx_>>
    IN  IF t > Len(x[1])
        THEN Outcome("none", <<"get_constants", "rnn">>, constants, reads,
                     IF self.return_sequences THEN states
                     ELSE <<states[1][Len(states[1])],
                            states[2][Len(states[2])]>>)
        ELSE IF read.B_Wa = NoState
        THEN Outcome("TypeError", <<"get_constants">>, constants,
                     Append(reads, read), Nothing)
        ELSE IF SoftMultistepsAttention_step_raises(self, x_t, used) # "none"
        THEN Outcome(SoftMultistepsAttention_step_raises(self, x_t, used),
                     <<"get_constants">>, constants, Append(reads, read),
                     Nothing)
        ELSE LET r == SoftMultistepsAttention_attention_step(self, x_t, used)
             IN  SoftMultistepsAttention_rnn(self, x, t + 1,
                     <<r.ctx_, r.alphas>>, constants, Append(reads, read))

\* SoftMultistepsAttention.call for x = [state_below, context], after
\* self.context was assigned.
SoftMultistepsAttention_call(self, x, mask, backend, training, seed) ==
    IF Call_shape_raises(self, backend) # "none"
    THEN Outcome(Call_shape_raises(self, backend), <<>>, <<>>, <<>>, Nothing)
    ELSE IF mask = <<>>
    THEN Outcome("TypeError", <<>>, <<>>, <<>>, Nothing)
    ELSE SoftMultistepsAttention_rnn(self, x[1], 1, <<NoState, NoState>>,
             SoftMultistepsAttention_get_constants(self, x[1], training, seed),
             <<>>)

\* --------------------------------------------------- objects and actions
\* The shapes input_spec[0] records: the shape of the input, the same with
\* its dimension 1 left undefined (None or 0), and shapes of two and of four
\* dimensions.
RecordedShapes ==
    {<<NbSamples, QuerySteps, QueryDim>>, <<NbSamples, NoneDim, QueryDim>>,
     <<NbSamples, 0, QueryDim>>,
     <<NbSamples, QueryDim>>, <<NbSamples, QuerySteps, QuerySteps, QueryDim>>}

\* The built layers call is applied to.
CallLayers ==
    {[class |-> "Attention", nb_attention |-> n, input_dim |-> QueryDim,
      Wa |-> Kernel(QueryDim, n, s), ba |-> Bias(n, s), dropout_Wa |-> d,
      input_spec |-> sh, built |-> TRUE] :
        n \in 1..MaxHeads, s \in 0..1, d \in {0, 50}, sh \in RecordedShapes}
    \cup
    {[l EXCEPT !.input_spec = sh] : l \in ComplexLayers, sh \in RecordedShapes}
    \cup
    {[class |-> c, att_dim |-> AttDim, sum_weighted_output |-> f,
      activation |-> "fn:linear", return_sequences |-> TRUE,
      input_steps |-> QuerySteps, input_dim |-> QueryDim, context_dim |-> cd,
      Wa |-> Kernel(QueryDim, AttDim, 1), wa |-> Bias(AttDim, 1),
      Ua |-> Kernel(cd, AttDim, 0), ba |-> Bias(AttDim, 0),
      ca |-> [t \in 1..QuerySteps |-> t % 2],
      dropout_Wa |-> dW, dropout_Ua |-> dU, input_spec |-> sh,
      context |-> <<>>, built |-> TRUE] :
        c \in {"SoftAttention", "SoftMultistepsAttention"}, f \in BOOLEAN,
        cd \in {QueryDim, KeyDim}, dW \in {0, 50}, dU \in {0, 50},
        sh \in RecordedShapes}

\* The value of K._BACKEND.
Backends == {"theano", "tensorflow"}

\* The mask argument of call of SoftAttention and SoftMultistepsAttention:
\* None (<<>>), the default, or a list of two masks, each None or a mask.
SoftMaskChoices ==
    {<<>>, <<<<>>, <<>>>>, <<<<>>, SeqMask(NbSamples, QuerySteps)>>}

InitCall ==
    /\ pc = "old"
    /\ layer \in CallLayers
    /\ args = Nothing
    /\ op = "none"
    /\ arg = Nothing
    /\ raised = "none"
    /\ res = Nothing

\* What a call leaves: its arguments, what it raised and its outcome.
CallOutcome(x, mask, backend, outcome) ==
    /\ op' = "call"
    /\ arg' = [x |-> x, mask |-> mask, backend |-> backend]
    /\ raised' = outcome.raised
    /\ res' = outcome
    /\ UNCHANGED <<pc, args>>

\* attention = layer.call(x) for an Attention.
AttentionCall ==
    /\ pc = "old" /\ op = "none" /\ layer.class = "Attention"
    /\ \E seed \in 0..MaxQSeed, backend \in Backends :
        LET x == InputTensor(seed, NbSamples, QuerySteps, QueryDim)
        IN  CallOutcome(x, <<>>, backend, Attention_call(layer, x, backend))
    /\ UNCHANGED layer

\* attention = layer.call(x) for an AttentionComplex.
AttentionComplexCall ==
    /\ pc = "old" /\ op = "none" /\ layer.class = "AttentionComplex"
    /\ \E seed \in 0..MaxQSeed, backend \in Backends :
        LET x == InputTensor(seed, NbSamples, QuerySteps, QueryDim)
        IN  CallOutcome(x, <<>>, backend,
                        AttentionComplex_call(layer, x, backend))
    /\ UNCHANGED layer

\* layer.get_output_shape_for(input_shape) for an AttentionComplex.
AttentionComplexOutputShape ==
    /\ pc = "old" /\ op = "none" /\ layer.class = "AttentionComplex"
    /\ arg' = layer.input_spec
    /\ res' = AttentionComplex_get_output_shape_for(layer, layer.input_spec)
    /\ op' = "get_output_shape_for"
    /\ raised' = "none"
    /\ UNCHANGED <<pc, layer, args>>

\* [attended, alphas] = layer.call([state_below, context], mask) for a
\* SoftAttention: the context is assigned to self.context first of all.
SoftAttentionCall ==
    /\ pc = "old" /\ op = "none" /\ layer.class = "SoftAttention"
    /\ \E seed \in 0..1, backend \in Backends, mask \in SoftMaskChoices,
          training \in BOOLEAN :
        LET x == <<InputTensor(seed, NbSamples, QuerySteps, QueryDim),
                   [b \in 1..NbSamples |-> [c \in 1..layer.context_dim |->
                       (b + c + seed) % 2]]>>
            self == [layer EXCEPT !.context = x[2]]
        IN  /\ layer' = self
            /\ CallOutcome(x, mask, backend,
                   SoftAttention_call(self, x, mask, backend, training, seed))

\* states = layer.call([state_below, context], mask) for a
\* SoftMultistepsAttention.
SoftMultistepsAttentionCall ==
    /\ pc = "old" /\ op = "none" /\ layer.class = "SoftMultistepsAttention"
    /\ \E seed \in 0..1, backend \in Backends, mask \in SoftMaskChoices,
          training \in BOOLEAN :
        LET x == <<InputTensor(seed, NbSamples, QuerySteps, QueryDim),
                   ContextTensor(seed, NbSamples, QuerySteps,
                                 layer.context_dim)>>
            self == [layer EXCEPT !.context = x[2]]
        IN  /\ layer' = self
            /\ CallOutcome(x, mask, backend,
                   SoftMultistepsAttention_call(self, x, mask, backend,
                                                training, seed))

NextCall ==
    \/ AttentionCall
    \/ AttentionComplexCall
    \/ AttentionComplexOutputShape
    \/ SoftAttentionCall
    \/ SoftMultistepsAttentionCall

SpecCall == InitCall /\ [][NextCall]_vars

\* A state call of a layer of the old API has acted in.
OldCalled(classes) == pc = "old" /\ op = "call" /\ layer.class \in classes

\* C15: what AttentionComplex.call returns is normalised: for every sample
\* and every attention mechanism the values over the positions are not
\* negative and sum to 1.
C15_AlphaNormalised ==
    (OldCalled({"AttentionComplex"}) /\ raised = "none") =>
        \A b \in 1..Len(res.out) : \A a \in 1..layer.nb_attention :
            /\ \A t \in 1..Len(res.out[b]) : res.out[b][t][a][1] >= 0
            /\ FSum([t \in 1..Len(res.out[b]) |-> res.out[b][t][a]]) = <<1, 1>>

\* The recorded input shape passes the checks call begins with.
ShapeAccepted ==
    /\ Len(layer.input_spec) = 3
    /\ ~(arg.backend = "tensorflow" /\ Undefined(layer.input_spec[2]))

\* C21: call of SoftAttention and of SoftMultistepsAttention, given two
\* inputs and no mask (mask = None, the default), completes without error.
C21_CallWithoutMask ==
    (/\ OldCalled({"SoftAttention", "SoftMultistepsAttention"})
     /\ arg.mask = <<>> /\ ShapeAccepted)
        => raised = "none"

\* C21, what the code does: with mask = None, call raises TypeError at
\* mask[1], before any constant is computed.
C21_MaskNoneTypeError ==
    (/\ OldCalled({"SoftAttention", "SoftMultistepsAttention"})
     /\ arg.mask = <<>> /\ ShapeAccepted)
        => raised = "TypeError" /\ res.done = <<>> /\ res.out = Nothing


\* ------------------------------------------ constructors of the old API
\* A state the constructor of a class of the old API has been called in, with
\* its parameter without default given.
LegacyConstructed ==
    /\ op = "legacy __init__"
    /\ RequiredParams(args.class) \subseteq DOMAIN args.kw

\* C16: the constructors of ConvAtt and ConvCoAtt raise ValueError when
\* border_mode is not 'valid', 'same' or 'full', and ValueError when
\* dim_ordering, 'default' resolved, is not 'tf' or 'th'; no layer is
\* constructed in either case.
C16_ConvValueErrors ==
    (/\ LegacyConstructed
     /\ args.class \in {"ConvAtt", "ConvCoAtt"}
     /\ \/ KwGet(args.kw, "border_mode", "valid") \notin {"valid", "same", "full"}
        \/ Resolved_dim_ordering(args.kw) \notin {"tf", "th"})
        => raised = "ValueError" /\ layer = NoLayer /\ pc = "new"

\* C16, the part that holds: ValueError for a border_mode that is not valid,
\* and no layer for a dim_ordering that is not valid.
C16_BorderModeValueError ==
    (LegacyConstructed /\ args.class \in {"ConvAtt", "ConvCoAtt"}) =>
        /\ KwGet(args.kw, "border_mode", "valid") \notin {"valid", "same", "full"}
            => raised = "ValueError" /\ layer = NoLayer
        /\ Resolved_dim_ordering(args.kw) \notin {"tf", "th"}
            => raised # "none" /\ layer = NoLayer

\* C20: the constructor of every class of the old API, called with valid
\* arguments, raises nothing and gives a layer: every name of the module it
\* uses is defined.
C20_LegacyConstructs ==
    (/\ LegacyConstructed
     /\ KwGet(args.kw, "border_mode", "valid") \in {"valid", "same", "full"}
     /\ Resolved_dim_ordering(args.kw) \in {"tf", "th"})
        => raised = "none" /\ pc = "legacy" /\ layer.class = args.class


\* ------------------------------------------------ the inputs of the layer
\* C17: the layer takes three inputs: build accepts a list of three input
\* shapes, and call, given three tensors, projects the values from the third.
C17_ThreeInputs ==
    /\ (Built /\ Len(arg) = 3) => (raised = "none" /\ layer.built)
    /\ (Called /\ Len(arg.inputs) = 3) =>
        \A b \in 1..NbSamples, t \in 1..KeySteps, m \in 1..layer.dmodel :
            res.values[b][t][m] =
                Activation(layer.activation,
                    SumSeq([j \in 1..KeyDim |->
                        arg.inputs[3][b][t][j] * layer.linear_v[j][m]])
                    + BiasTerm(layer.bias_v, m))

\* C17, what the code does: build accepts two input shapes only, and call
\* projects the values from the second tensor, the keys, whatever follows it.
C17_TwoInputs ==
    /\ (Built /\ raised = "none") => Len(arg) = 2
    /\ Called =>
        \A b \in 1..NbSamples, t \in 1..KeySteps, m \in 1..layer.dmodel :
            res.values[b][t][m] =
                Activation(layer.activation,
                    SumSeq([j \in 1..KeyDim |->
                        arg.inputs[2][b][t][j] * MaskAt(2, b, t)
                            * layer.linear_v[j][m]])
                    + BiasTerm(layer.bias_v, m))


\* ------------------------------------------------ query masking, tiling
\* A row of weights that are all zero.
ZeroWeights(row) == \A k \in 1..Len(row) : row[k] = <<0, 1>>

\* C18: for every head, the row of attention weights of a query position
\* whose query vector (after the query mask) is all zeros is all zeros, and
\* the row of every other query position is the row of the softmax after
\* dropout, unchanged; the attended vector of a zero query position, before
\* the final projection, is the zero vector.
C18_QueryMasking ==
    Called =>
        /\ \A r \in Rows, q \in 1..QuerySteps :
            IF ZeroRow(1, SampleOf(r), q)
            THEN /\ ZeroWeights(res.alphas[r][q])
                 /\ ZeroWeights(res.heads[r][q])
            ELSE res.alphas[r][q] = res.dropped[r][q]
        /\ \A b \in 1..NbSamples, q \in 1..QuerySteps :
            ZeroRow(1, b, q) => ZeroWeights(res.attended_heads[b][q])

\* C18 witness: a call in the training phase, with two heads and a query
\* mask, in which a query row the mask zeroes has weights of zero where the
\* softmax had none, and a query row that is not zero but sums to zero keeps
\* the weights dropout left, some of them dropped.
C18_Witness ==
    /\ Called /\ layer.n_heads = 2 /\ arg.training
    /\ arg.mask # <<>> /\ arg.mask[1] # <<>>
    /\ \E b \in 1..NbSamples, q \in 1..QuerySteps :
        /\ ZeroRow(1, b, q) /\ MaskAt(1, b, q) = 0
        /\ \E d \in 1..QueryDim : arg.inputs[1][b][q][d] # 0
        /\ ~ZeroWeights(res.dropped[NbSamples + b][q])
        /\ ZeroWeights(res.alphas[NbSamples + b][q])
    /\ \E b \in 1..NbSamples, q \in 1..QuerySteps :
        /\ ~ZeroRow(1, b, q) /\ SumSeq(arg.inputs[1][b][q]) = 0
        /\ res.alphas[b][q] # res.softmax[b][q]
        /\ ~ZeroWeights(res.alphas[b][q])

\* C19: for every head i and sample b, row i*N + b of the tiled key masks
\* and of the tiled query masks is the mask of sample b, and row i*N + b of
\* the stacked queries, keys and values is slice i of those of sample b.
C19_MasksAligned ==
    Called =>
        \A i \in 1..layer.n_heads, b \in 1..NbSamples :
            LET r == (i - 1) * NbSamples + b
            IN  /\ \A q \in 1..QuerySteps, k \in 1..KeySteps :
                    /\ res.key_masks[r][q][k] =
                        (IF ZeroRow(2, b, k) THEN 0 ELSE 1)
                    /\ res.query_masks[r][q][k] =
                        (IF ZeroRow(1, b, q) THEN 0 ELSE 1)
                    /\ ZeroRow(2, b, k) <=> res.key_masked[r][q][k] = PaddingValue
                /\ res.queries_[r] = SliceOf(res.queries, b, i, layer.dk)
                /\ res.keys_[r] = SliceOf(res.keys, b, i, layer.dk)
                /\ res.values_[r] = SliceOf(res.values, b, i, layer.dv)

\* C19 witness: a call with two heads whose two samples have different key
\* masks and different query masks, and different queries, keys and values.
C19_Witness ==
    /\ Called /\ layer.n_heads = 2
    /\ res.key_masks[1] # res.key_masks[2]
    /\ res.key_masks[NbSamples + 1] # res.key_masks[NbSamples + 2]
    /\ res.query_masks[1] # res.query_masks[2]
    /\ res.query_masks[NbSamples + 2] = res.query_masks[2]
    /\ res.queries_[NbSamples + 1] # res.queries_[NbSamples + 2]
    /\ res.keys_[NbSamples + 1] # res.keys_[NbSamples + 2]
    /\ res.values_[NbSamples + 1] # res.values_[1]



\* A state K.rnn of SoftMultistepsAttention.call has run a step in.
RnnStarted ==
    /\ OldCalled({"SoftMultistepsAttention"})
    /\ res.reads # <<>>

\* C23: the step function being given states + constants, attention_step of
\* SoftMultistepsAttention, run with two initial states, reads the dropout
\* mask and the projected context where the constants are: at no time step
\* is what it uses as dropout mask or as context an initial state (None).
C23_StepReadsConstants ==
    RnnStarted =>
        \A t \in 1..Len(res.reads) :
            /\ res.reads[t].B_Wa = res.constants[1]
            /\ res.reads[t].pctx_ = res.constants[2]
            /\ res.reads[t].B_Wa # NoState
            /\ res.reads[t].pctx_ # NoState

\* C23, what the code does: the first step takes the two initial states for
\* the dropout mask and for the context, and fails with a TypeError.
C23_StepReadsStates ==
    RnnStarted =>
        /\ Len(res.reads) = 1
        /\ res.reads[1].B_Wa = NoState /\ res.reads[1].pctx_ = NoState
        /\ raised = "TypeError" /\ res.out = Nothing



\* C22: the step function being given states + constants, step of ConvAtt
\* and of ConvCoAtt takes the constant image for its context and never reads
\* the recurrent state: the output of time step t is computed from the t-th
\* input vector and the image, and from no output of an earlier step nor
\* the initial state.
C22_StepIgnoresState ==
    (ConvReturned("ConvAtt") \/ ConvReturned("ConvCoAtt")) =>
        /\ Len(res.from) = layer.num_words
        /\ \A t \in 1..Len(res.from) :
            res.from[t] = {<<"x", t>>, <<"image", 0>>}

\* C22 witness: a call of a ConvCoAtt has returned the outputs of more than
\* one time step, the last of them computed from the last word and the image.
C22_Witness ==
    /\ ConvReturned("ConvCoAtt") /\ layer.return_states
    /\ layer.num_words > 1
    /\ <<"x", layer.num_words>> \in res.from[layer.num_words]
    /\ <<"x", 1>> \notin res.from[layer.num_words]
    /\ <<"image", 0>> \in res.from[layer.num_words]



\* ------------------------------------------- C24: compute_output_shape
\* A state right after compute_output_shape(input_shape) of the layer.
ShapeComputed == op = "compute_output_shape"

NothingComputed ==
    /\ res.done = <<>>
    /\ res.constants = <<>>
    /\ res.reads = <<>>
    /\ res.out = Nothing

\* C25: call of Attention, SoftAttention, SoftMultistepsAttention and
\* AttentionComplex raises an AssertionError when the recorded input shape
\* does not have exactly 3 dimensions, and an Exception when the backend is
\* tensorflow and dimension 1 of that shape is None or 0; in both cases no
\* dropout constant and no attention value was computed.
C25_ShapeChecksFirst ==
    OldCalled({"Attention", "SoftAttention", "SoftMultistepsAttention",
               "AttentionComplex"}) =>
        /\ Len(layer.input_spec) # 3 =>
              raised = "AssertionError" /\ NothingComputed
        /\ (/\ Len(layer.input_spec) = 3
            /\ arg.backend = "tensorflow"
            /\ layer.input_spec[2] \in {NoneDim, 0}) =>
              raised = "Exception" /\ NothingComputed

\* C25 witness: call of a SoftAttention without dropout, given a list of two
\* masks, fails the assertion on a recorded shape of four dimensions, having
\* assigned self.context.
C25_Witness ==
    /\ OldCalled({"SoftAttention"})
    /\ Len(layer.input_spec) = 4
    /\ layer.dropout_Wa = 0 /\ layer.dropout_Ua = 0
    /\ arg.mask # <<>>
    /\ layer.context = arg.x[2]
    /\ raised = "AssertionError" /\ NothingComputed

=============================================================================
